---- MODULE Spec2Model ----
(***************************************************************************)
(* Admission control of kr-civic-archive: the in-process fixed-window      *)
(* limiter (app/security_rate_limit.py, InMemoryRateLimiter), the          *)
(* Redis-backed limiter with its degraded-mode breaker (RedisRateLimiter)  *)
(* and the client identity resolver (app/security_proxy.py).               *)
(*                                                                         *)
(* Each component is an object of its own, so each has its own             *)
(* specification over the shared variable list:                            *)
(*   Spec          InMemoryRateLimiter, allow() called from threads        *)
(*   SpecLocalSeq  InMemoryRateLimiter, one allow() call at a time         *)
(*   SpecShared    RedisRateLimiter, allow() called from threads, with     *)
(*                 the store and the two clocks as its environment         *)
(*   SpecIdentity  client_key, applied to requests and trusted networks    *)
(*   SpecGuard     request_size_guard (app/bootstrap/middleware.py) around *)
(*                 the downstream pipeline, one request                    *)
(*   SpecLimiter   the rate-limit dependency over either limiter           *)
(*   SpecStartup   create_app (app/__init__.py) with its startup checks    *)
(*   SpecInstances two InMemoryRateLimiter objects side by side            *)
(*   SpecAdmission a protected endpoint: the guard, the API-key, JWT and   *)
(*                 rate-limit dependencies in order, then the handler      *)
(*   SpecLocalMany InMemoryRateLimiter, one call at a time, with more      *)
(*                 identities than the prune threshold                     *)
(***************************************************************************)
EXTENDS Integers, Sequences, FiniteSets, TLC

(* ---------------------------------------------------------------------- *)
(* Bounds of the model and constants of the program                        *)
(* ---------------------------------------------------------------------- *)

\* identities (rate-limit keys) the callers present
Identities == {"a", "b"}

\* threads of the request-handling runtime
Threads == {"t1", "t2"}

\* identities of the callers where more identities than the prune threshold
\* are needed
ManyIdentities == Identities \cup {"c"}

\* allow() calls made on the in-memory limiter in one behaviour
MaxLocalCalls == 4

\* last wall-clock second of a behaviour
MaxWall == 120

\* wall-clock seconds that pass in one step of the clock
WallDeltas == {30}

\* int(time.time() // 60): the width of a bucket in seconds
BucketSeconds == 60

\* len(self._windows) < 4096 in _prune, scaled to the model's identities
PruneThreshold == 2

\* requests_per_minute values handed to the constructors
RpmConfigs == {-1, 0, 1, 2}

\* constructor arguments handed to RedisRateLimiter
SharedConfigs ==
    { [rpm |-> 1, window |-> 60, cooldown |-> 1, fail_open |-> TRUE],
      [rpm |-> 2, window |-> 0, cooldown |-> 0, fail_open |-> FALSE],
      [rpm |-> 0, window |-> 60, cooldown |-> 1, fail_open |-> FALSE],
      [rpm |-> -1, window |-> 60, cooldown |-> 1, fail_open |-> FALSE] }

\* identities the callers of the Redis limiter present; the store's key space
\* holds the keys of every identity
SharedIdentities == {"a"}

\* allow() calls made on the Redis limiter in one behaviour
MaxSharedCalls == 2

\* last second of the monotonic clock in a behaviour
MaxMono == 1

\* under the Redis limiter the wall clock runs across one bucket boundary
MaxSharedWall == BucketSeconds

\* most hops in an X-Forwarded-For value
MaxHops == 2

\* config.MAX_REQUEST_BODY_BYTES
MaxBodyBytes == 2

\* most body messages the transport holds for one request
MaxChunks == 2

\* limiter objects alive at once, one per build_rate_limit_dependency call
Instances == {1, 2}

\* allow() calls made on the limiter objects in one behaviour
MaxInstanceCalls == 3

\* requests sent to the protected endpoint in one behaviour
MaxRequests == 2

Max(a, b) == IF a >= b THEN a ELSE b

Min(a, b) == IF a <= b THEN a ELSE b

Buckets == 0 .. (MaxWall \div BucketSeconds)

VARIABLES
    wall,           \* time.time(), in seconds
    \* ---- InMemoryRateLimiter
    m_rpm,          \* the constructor's requests_per_minute argument
    windows,        \* self._windows: identity -> <<window, count>>
    m_pc,           \* per thread: "idle", "lock" (waiting for self._lock), "done"
    m_key,          \* per thread: the key argument of allow()
    m_now_window,   \* per thread: the local now_window
    m_ret,          \* per thread: the value allow() returned
    \* ---- history of the in-memory limiter (not program state)
    h_bucket,       \* per thread: floor(wall / 60) when the call was made
    h_ord,          \* per thread: the call's rank among the calls of its identity and bucket
    h_calls,        \* <<identity, bucket>> -> completed allow() calls
    h_true,         \* <<identity, bucket>> -> completed allow() calls that returned true
    h_ncalls,       \* allow() calls started
    \* ---- RedisRateLimiter: constructor arguments
    r_rpm,          \* requests_per_minute
    r_window,       \* window_seconds
    r_cooldown,     \* failure_cooldown_seconds
    r_fail_open,    \* fail_open
    \* ---- RedisRateLimiter: the object
    client,         \* self._client: "none" or "conn"
    script_sha,     \* self._script_sha: "none" or "sha"
    degraded_until, \* self._degraded_until
    \* ---- RedisRateLimiter: one allow() call per thread
    r_pc,           \* "idle", "script_load", "evalsha", "eval", "replied", "failed"
    r_key,          \* the key argument
    r_now,          \* the local now = self._monotonic()
    r_redis_key,    \* the local redis_key, as <<bucket, key>> behind the fixed prefix
    r_reply,        \* what the store call returned: [kind, n]
    r_last,         \* the allow() call that ended last: what it returned, and how
    d_response,     \* verify_rate_limit around that call: what the request got
    \* ---- the environment of the Redis limiter
    mono,           \* time.monotonic(), in seconds
    store,          \* the store: redis key -> counter (0: no such key)
    expire_at,      \* the store: redis key -> wall-clock second its TTL ends
    \* ---- history of the Redis limiter (not program state)
    hr_calls,       \* per thread: store calls made by the current allow()
    hr_attempts,    \* per thread: increment attempts (EVALSHA, EVAL) of the current allow()
    hr_incr,        \* per thread: increments the current allow() applied to the store
    hr_true,        \* redis key -> allow() calls that returned true on an integer reply
    hr_runs,        \* redis key -> runs of the script on the key since it was created
    hr_dirty,       \* redis key -> a reply was lost or garbled, or the key expired and came back
    hr_ncalls,      \* allow() calls started
    hr_ndone,       \* allow() calls ended
    \* ---- client identity
    trusted_proxy_networks, \* the trusted_proxy_networks argument of client_key
    request,        \* the request argument: [client, xff, rid, xrip]
    i_pc,           \* "none", "received" (client_key not yet called), "resolved"
    resolved_key,   \* what client_key returned for the request
    \* ---- request_size_guard: the request and its transport
    g_method,       \* request.method
    g_api,          \* request.url.path starts with "/api/"
    g_route,        \* a route exists for the path and accepts the method
    g_header,       \* the Content-Length header
    g_stream,       \* the body as the transport holds it: the lengths of its chunks
    g_pos,          \* messages taken from the transport (calls of original_receive)
    \* ---- request_size_guard: its locals and the request state
    g_pc,           \* "none", "start", "downstream" (inside call_next), "done"
    g_wrapped,      \* request._receive is guarded_receive
    content_length, \* the local content_length: [set, n]
    received_bytes, \* the local received_bytes
    guard_details,  \* request.state._request_size_guard_details
    g_delivered,    \* the messages the downstream pipeline received, in order
    response,       \* what request_size_guard returned, or that it raised
    g_called,       \* history: call_next was invoked
    \* ---- the rate-limit dependency and the limiter it was built over
    rate_limit_backend, \* config.rate_limit_backend: "memory" or "redis"
    d_resolved,     \* history: verify_rate_limit called _client_key for the last request
    \* ---- create_app
    config,         \* the app_config argument, the fields the startup checks read
    app,            \* what create_app gave: [state, error], state "none" before the call
    \* ---- two InMemoryRateLimiter objects, each behind its own dependency
    inst_rpm,       \* the requests_per_minute both were constructed with
    inst_windows,   \* instance -> its self._windows
    inst_log,       \* history: instance -> its allow() calls, [key, window, ret] each
    \* ---- a protected endpoint: the dependencies between the guard and the handler
    a_require,      \* [api_key, jwt]: config.REQUIRE_API_KEY, config.REQUIRE_JWT
    a_request,      \* [x_api_key, authorization, identity] of the request
    a_stage,        \* index of the next dependency; past the last one, the handler
    a_trace,        \* history: the dependencies that ran for the request, in order
    a_allow,        \* history: limiter.allow() calls made for the request
    a_windows0,     \* history: self._windows when the request arrived
    a_nreq          \* requests that have arrived

memVars == <<m_rpm, windows, m_pc, m_key, m_now_window, m_ret>>

memHist == <<h_bucket, h_ord, h_calls, h_true, h_ncalls>>

sharedCfg == <<r_rpm, r_window, r_cooldown, r_fail_open>>

sharedObj == <<client, script_sha, degraded_until>>

sharedCall == <<r_pc, r_key, r_now, r_redis_key, r_reply, r_last, d_response>>

sharedEnv == <<mono, store, expire_at>>

sharedHist == <<hr_calls, hr_attempts, hr_incr, hr_true, hr_runs, hr_dirty,
                hr_ncalls, hr_ndone>>

localAll == <<memVars, memHist>>

sharedAll == <<sharedCfg, sharedObj, sharedCall, sharedEnv, sharedHist>>

identAll == <<trusted_proxy_networks, request, i_pc, resolved_key>>

guardAll == <<g_method, g_api, g_route, g_header, g_stream, g_pos, g_pc, g_wrapped,
              content_length, received_bytes, guard_details, g_delivered, response,
              g_called>>

depAll == <<rate_limit_backend, d_resolved>>

startAll == <<config, app>>

instAll == <<inst_rpm, inst_windows, inst_log>>

admAll == <<a_require, a_request, a_stage, a_trace, a_allow, a_windows0, a_nreq>>

\* the request as the guard sees it, and the guard's progress on it
guardRequest == <<g_method, g_api, g_route, g_header, g_stream>>

guardRun == <<g_pos, g_wrapped, content_length, received_bytes, guard_details,
              g_delivered, g_called>>

extOther == <<startAll, instAll, admAll>>

extAll == <<depAll, extOther>>

vars == <<wall, localAll, sharedAll, identAll, guardAll, extAll>>

(* ---------------------------------------------------------------------- *)
(* InMemoryRateLimiter                                                     *)
(* ---------------------------------------------------------------------- *)

\* self.requests_per_minute = max(0, requests_per_minute)
MemRequestsPerMinute == Max(0, m_rpm)

\* the enabled property
MemEnabled == MemRequestsPerMinute > 0

\* now_window = int(time.time() // 60)
NowWindow(t) == t \div BucketSeconds

\* self._windows.get(key, (now_window, 0))
GetWindow(ws, key, now_window) ==
    IF key \in DOMAIN ws THEN ws[key] ELSE <<now_window, 0>>

\* a rollover that moves the window and keeps the count
RolloverKeepsCount(entry, now_window) == <<now_window, entry[2]>>

\* if prev_window != now_window: prev_window, count = now_window, 0
Rollover(entry, now_window) ==
    IF entry[1] # now_window THEN <<now_window, 0>> ELSE entry

\* self._windows[key] = (prev_window, count)
StoreWindow(ws, key, entry) ==
    [x \in (DOMAIN ws) \cup {key} |-> IF x = key THEN entry ELSE ws[x]]

\* a prune that keeps the entries of the current bucket only
PruneKeepsCurrent(ws, now_window) ==
    IF Cardinality(DOMAIN ws) < PruneThreshold
    THEN ws
    ELSE [x \in {y \in DOMAIN ws : ws[y][1] >= now_window} |-> ws[x]]

\* a limiter that never removes an entry
PruneNothing(ws, now_window) == ws

\* _prune: below the threshold nothing; else keep the entries with v[0] >= now_window - 1
Prune(ws, now_window) ==
    IF Cardinality(DOMAIN ws) < PruneThreshold
    THEN ws
    ELSE [x \in {y \in DOMAIN ws : ws[y][1] >= now_window - 1} |-> ws[x]]

\* return count <= self.requests_per_minute
AllowDecision(count, rpm) == count <= rpm

\* a dependency that resolves the identity of every request
ResolvesAlways(enabled) == TRUE

\* verify_rate_limit: "if not limiter.enabled: return" comes before
\* limiter.allow(_client_key(request, ...)): the identity is resolved only for
\* an enabled limiter
ResolvesIdentity(enabled) == enabled

\* a request reaches the rate-limit dependency, or a caller calls allow();
\* allow(), up to the lock: the enabled test and the bucket of the call
MemAllowBegin(t, k) ==
    /\ m_pc[t] = "idle"
    /\ d_resolved' = ResolvesIdentity(MemEnabled)
    /\ h_ncalls < MaxLocalCalls
    /\ h_ncalls' = h_ncalls + 1
    /\ m_key' = [m_key EXCEPT ![t] = k]
    /\ h_bucket' = [h_bucket EXCEPT ![t] = wall \div BucketSeconds]
    /\ IF ~MemEnabled
       THEN /\ m_pc' = [m_pc EXCEPT ![t] = "done"]
            /\ m_ret' = [m_ret EXCEPT ![t] = TRUE]
            /\ UNCHANGED m_now_window
       ELSE /\ m_pc' = [m_pc EXCEPT ![t] = "lock"]
            /\ m_now_window' = [m_now_window EXCEPT ![t] = NowWindow(wall)]
            /\ UNCHANGED m_ret
    /\ UNCHANGED <<wall, m_rpm, windows, h_ord, h_calls, h_true, sharedAll, identAll, guardAll,
                   rate_limit_backend, extOther>>

\* allow(), the body of "with self._lock": one step, the lock excludes the others
MemAllowLocked(t) ==
    /\ m_pc[t] = "lock"
    /\ LET k == m_key[t]
           nw == m_now_window[t]
           prev == Rollover(GetWindow(windows, k, nw), nw)
           count == prev[2] + 1
           ret == AllowDecision(count, MemRequestsPerMinute)
           hk == <<k, h_bucket[t]>>
       IN /\ windows' = Prune(StoreWindow(windows, k, <<prev[1], count>>), nw)
          /\ m_ret' = [m_ret EXCEPT ![t] = ret]
          /\ h_calls' = [h_calls EXCEPT ![hk] = @ + 1]
          /\ h_ord' = [h_ord EXCEPT ![t] = h_calls[hk] + 1]
          /\ h_true' = [h_true EXCEPT ![hk] = IF ret THEN @ + 1 ELSE @]
    /\ m_pc' = [m_pc EXCEPT ![t] = "done"]
    /\ UNCHANGED <<wall, m_rpm, m_key, m_now_window, h_bucket, h_ncalls, sharedAll, identAll, guardAll, extAll>>

\* the caller takes the returned value; the thread serves its next request
MemAllowReturn(t) ==
    /\ m_pc[t] = "done"
    /\ m_pc' = [m_pc EXCEPT ![t] = "idle"]
    /\ m_ret' = [m_ret EXCEPT ![t] = "none"]
    /\ m_now_window' = [m_now_window EXCEPT ![t] = 0]
    /\ h_ord' = [h_ord EXCEPT ![t] = 0]
    /\ h_bucket' = [h_bucket EXCEPT ![t] = 0]
    /\ UNCHANGED <<wall, m_rpm, windows, m_key, h_calls, h_true, h_ncalls, sharedAll, identAll, guardAll, extAll>>

\* the wall clock advances (time.time() is taken as non-decreasing)
WallTick ==
    /\ \E d \in WallDeltas : wall + d <= MaxWall /\ wall' = wall + d
    /\ UNCHANGED <<localAll, sharedAll, identAll, guardAll, extAll>>

\* one call at a time: no other thread is inside allow()
MemAllowBeginSeq(t, k) ==
    /\ \A u \in Threads : m_pc[u] = "idle"
    /\ MemAllowBegin(t, k)

\* the limiter with more identities than the prune threshold
InitLocalMany ==
    /\ wall = 0
    /\ m_rpm \in RpmConfigs
    /\ windows = <<>>
    /\ m_pc = [t \in Threads |-> "idle"]
    /\ m_key = [t \in Threads |-> "a"]
    /\ m_now_window = [t \in Threads |-> 0]
    /\ m_ret = [t \in Threads |-> "none"]
    /\ h_bucket = [t \in Threads |-> 0]
    /\ h_ord = [t \in Threads |-> 0]
    /\ h_calls = [x \in ManyIdentities \X Buckets |-> 0]
    /\ h_true = [x \in ManyIdentities \X Buckets |-> 0]
    /\ h_ncalls = 0

InitLocal ==
    /\ wall = 0
    /\ m_rpm \in RpmConfigs
    /\ windows = <<>>
    /\ m_pc = [t \in Threads |-> "idle"]
    /\ m_key = [t \in Threads |-> "a"]
    /\ m_now_window = [t \in Threads |-> 0]
    /\ m_ret = [t \in Threads |-> "none"]
    /\ h_bucket = [t \in Threads |-> 0]
    /\ h_ord = [t \in Threads |-> 0]
    /\ h_calls = [x \in Identities \X Buckets |-> 0]
    /\ h_true = [x \in Identities \X Buckets |-> 0]
    /\ h_ncalls = 0


(* ---------------------------------------------------------------------- *)
(* RedisRateLimiter                                                        *)
(* ---------------------------------------------------------------------- *)

\* the redis keys of the model: "<prefix>:<bucket>:<key>" with the prefix fixed
RedisKeys == Buckets \X Identities

\* self.requests_per_minute = max(0, requests_per_minute)
RequestsPerMinute == Max(0, r_rpm)

\* self.window_seconds = max(1, window_seconds)
WindowSeconds == Max(1, r_window)

\* self.failure_cooldown_seconds = max(1, int(failure_cooldown_seconds))
FailureCooldownSeconds == Max(1, r_cooldown)

\* a limiter that is enabled whatever its limit
EnabledAlways == TRUE

\* the enabled property
Enabled == RequestsPerMinute > 0

\* how a boolean result of allow() is recorded
Returned(b) == IF b THEN "allow" ELSE "deny"

\* redis_key = f"{self.key_prefix}:{bucket}:{key}" with bucket = int(time.time() // 60)
RedisKey(t, key) == <<NowWindow(t), key>>

\* the counter of a key as the store sees it: a key past its TTL is gone
Live(st, ex, rk, t) == IF st[rk] > 0 /\ t >= ex[rk] THEN 0 ELSE st[rk]

\* an increment that is lost once the key exists
ScriptIncrLost(st, ex, rk, t) == Max(1, Live(st, ex, rk, t))

\* _WINDOW_SCRIPT: local current = redis.call("INCR", KEYS[1])
ScriptIncr(st, ex, rk, t) == Live(st, ex, rk, t) + 1

\* a script that sets the TTL on every increment
ScriptExpireAlways(current, ex, rk, ttl, t) == [ex EXCEPT ![rk] = t + ttl]

\* _WINDOW_SCRIPT: if current == 1 then redis.call("EXPIRE", KEYS[1], tonumber(ARGV[1])) end
ScriptExpire(current, ex, rk, ttl, t) ==
    IF current = 1 THEN [ex EXCEPT ![rk] = t + ttl] ELSE ex

NoReply == [kind |-> "none", n |-> 0]

NoKey == <<0, "a">>

NoCall == [ret |-> "none", how |-> "none"]

\* the script runs on the store, as one step of the store
RunScript(t, garbled) ==
    LET rk == r_redis_key[t]
        current == ScriptIncr(store, expire_at, rk, wall)
        fresh == Live(store, expire_at, rk, wall) = 0
    IN /\ store' = [store EXCEPT ![rk] = current]
       /\ expire_at' = ScriptExpire(current, expire_at, rk, WindowSeconds, wall)
       /\ hr_incr' = [hr_incr EXCEPT ![t] = @ + 1]
       /\ hr_runs' = [hr_runs EXCEPT ![rk] = IF fresh THEN 1 ELSE @ + 1]
       /\ hr_dirty' = [hr_dirty EXCEPT ![rk] = @ \/ garbled \/ (fresh /\ store[rk] > 0)]
       /\ r_reply' = [r_reply EXCEPT ![t] =
                          IF garbled THEN [kind |-> "bad", n |-> 0]
                                     ELSE [kind |-> "int", n |-> current]]

\* a store call that raises a store error; the store may have run the script before
\* the reply was lost (socket_timeout=0.2)
LostCall(t, applied) ==
    LET rk == r_redis_key[t]
        current == ScriptIncr(store, expire_at, rk, wall)
        fresh == Live(store, expire_at, rk, wall) = 0
    IN /\ IF applied
          THEN /\ store' = [store EXCEPT ![rk] = current]
               /\ expire_at' = ScriptExpire(current, expire_at, rk, WindowSeconds, wall)
               /\ hr_incr' = [hr_incr EXCEPT ![t] = @ + 1]
               /\ hr_runs' = [hr_runs EXCEPT ![rk] = IF fresh THEN 1 ELSE @ + 1]
          ELSE UNCHANGED <<store, expire_at, hr_incr, hr_runs>>
       /\ hr_dirty' = [hr_dirty EXCEPT ![rk] = @ \/ applied]
       /\ UNCHANGED r_reply

\* the details dict of the rate-limit error: its keys, and the value under each
NoLimitDetails == [keys |-> {}, reason |-> "", limit_per_minute |-> 0, backend |-> ""]

\* no request has passed the dependency yet
NoVerdict ==
    [kind |-> "none", status |-> 0, code |-> "", message |-> "", details |-> NoLimitDetails]

\* verify_rate_limit returned None: the request goes on to its handler
HandlerReached ==
    [kind |-> "handler", status |-> 0, code |-> "", message |-> "", details |-> NoLimitDetails]

\* allow() raised and verify_rate_limit does not catch: the exception leaves
\* the dependency
LimiterRaised ==
    [kind |-> "raise", status |-> 0, code |-> "", message |-> "", details |-> NoLimitDetails]

\* http_error(429, "RATE_LIMITED", "Too Many Requests", details={...}) with
\* int(config.RATE_LIMIT_PER_MINUTE) and str(config.rate_limit_backend)
RateLimited ==
    [kind |-> "error", status |-> 429, code |-> "RATE_LIMITED",
     message |-> "Too Many Requests",
     details |-> [keys |-> {"reason", "limit_per_minute", "backend"},
                  reason |-> "rate_limit_exceeded",
                  limit_per_minute |-> r_rpm,
                  backend |-> rate_limit_backend]]

\* a dependency that lets every request through
verify_nothing(enabled, ret) == HandlerReached

\* verify_rate_limit: return if the limiter is not enabled; raise the 429 if
\* allow() returned false; what allow() raises is not caught
verify_rate_limit(enabled, ret) ==
    IF ~enabled THEN HandlerReached
    ELSE CASE ret = "allow" -> HandlerReached
           [] ret = "deny" -> RateLimited
           [] OTHER -> LimiterRaised

\* allow() returns (or raises): the thread is free for its next request
Finish(t, ret, how) ==
    /\ r_pc' = [r_pc EXCEPT ![t] = "idle"]
    /\ r_last' = [ret |-> ret, how |-> how]
    /\ d_response' = verify_rate_limit(Enabled, ret)
    /\ hr_ndone' = hr_ndone + 1
    /\ r_key' = [r_key EXCEPT ![t] = "a"]
    /\ r_now' = [r_now EXCEPT ![t] = 0]
    /\ r_redis_key' = [r_redis_key EXCEPT ![t] = NoKey]
    /\ r_reply' = [r_reply EXCEPT ![t] = NoReply]
    /\ hr_calls' = [hr_calls EXCEPT ![t] = 0]
    /\ hr_attempts' = [hr_attempts EXCEPT ![t] = 0]
    /\ hr_incr' = [hr_incr EXCEPT ![t] = 0]

\* a limiter without the breaker test
DegradedNever(now, until) == FALSE

\* if now < self._degraded_until
Degraded(now, until) == now < until

\* allow() up to the first store call: the enabled and client tests,
\* now = self._monotonic(), the degraded test, the bucket and the key, and
\* _eval_counter's test of the cached handle
AllowBegin(t, k) ==
    /\ r_pc[t] = "idle"
    /\ d_resolved' = ResolvesIdentity(Enabled)
    /\ hr_ncalls < MaxSharedCalls
    /\ hr_ncalls' = hr_ncalls + 1
    /\ IF ~Enabled \/ client = "none"
       THEN Finish(t, "allow", "disabled")
       ELSE IF Degraded(mono, degraded_until)
       THEN Finish(t, Returned(r_fail_open), "degraded")
       ELSE /\ r_pc' = [r_pc EXCEPT ![t] =
                           IF script_sha = "none" THEN "script_load" ELSE "evalsha"]
            /\ r_key' = [r_key EXCEPT ![t] = k]
            /\ r_now' = [r_now EXCEPT ![t] = mono]
            /\ r_redis_key' = [r_redis_key EXCEPT ![t] = RedisKey(wall, k)]
            /\ UNCHANGED <<r_reply, r_last, d_response, hr_calls, hr_attempts, hr_incr, hr_ndone>>
    /\ UNCHANGED <<wall, localAll, identAll, guardAll, rate_limit_backend, extOther,
                   sharedCfg, sharedObj, sharedEnv, hr_true, hr_runs, hr_dirty>>

\* _eval_counter: self._script_sha = self._client.script_load(self._WINDOW_SCRIPT);
\* the store answers with the handle, or the call raises a store error
ScriptLoad(t) ==
    /\ r_pc[t] = "script_load"
    /\ hr_calls' = [hr_calls EXCEPT ![t] = @ + 1]
    /\ \/ /\ script_sha' = "sha"
          /\ r_pc' = [r_pc EXCEPT ![t] = "evalsha"]
       \/ /\ r_pc' = [r_pc EXCEPT ![t] = "failed"]
          /\ UNCHANGED script_sha
    /\ UNCHANGED <<wall, localAll, identAll, guardAll, extAll, sharedCfg, client, degraded_until,
                   r_key, r_now, r_redis_key, r_reply, r_last, d_response, sharedEnv,
                   hr_attempts, hr_incr, hr_true, hr_runs, hr_dirty, hr_ncalls, hr_ndone>>

\* _eval_counter: int(self._client.evalsha(self._script_sha, 1, redis_key, self.window_seconds));
\* the store runs the script and replies, or reports the handle stale (the script
\* cache was flushed), or the call raises a store error
EvalSha(t) ==
    /\ r_pc[t] = "evalsha"
    /\ hr_calls' = [hr_calls EXCEPT ![t] = @ + 1]
    /\ hr_attempts' = [hr_attempts EXCEPT ![t] = @ + 1]
    /\ \/ /\ \E garbled \in BOOLEAN : RunScript(t, garbled)
          /\ r_pc' = [r_pc EXCEPT ![t] = "replied"]
       \/ /\ r_pc' = [r_pc EXCEPT ![t] = "eval"]
          /\ UNCHANGED <<store, expire_at, r_reply, hr_incr, hr_runs, hr_dirty>>
       \/ /\ \E applied \in BOOLEAN : LostCall(t, applied)
          /\ r_pc' = [r_pc EXCEPT ![t] = "failed"]
    /\ UNCHANGED <<wall, localAll, identAll, guardAll, extAll, sharedCfg, sharedObj,
                   r_key, r_now, r_redis_key, r_last, d_response, mono,
                   hr_true, hr_ncalls, hr_ndone>>

\* a retry that is itself retried after a store error
EvalRetriesAgain(t) ==
    /\ r_pc[t] = "eval"
    /\ hr_calls' = [hr_calls EXCEPT ![t] = @ + 1]
    /\ hr_attempts' = [hr_attempts EXCEPT ![t] = @ + 1]
    /\ \/ /\ \E garbled \in BOOLEAN : RunScript(t, garbled)
          /\ r_pc' = [r_pc EXCEPT ![t] = "replied"]
       \/ /\ \E applied \in BOOLEAN : LostCall(t, applied)
          /\ r_pc' = [r_pc EXCEPT ![t] = IF hr_attempts[t] < 2 THEN "eval" ELSE "failed"]
    /\ UNCHANGED <<wall, localAll, identAll, guardAll, extAll, sharedCfg, sharedObj,
                   r_key, r_now, r_redis_key, r_last, d_response, mono,
                   hr_true, hr_ncalls, hr_ndone>>

\* _eval_counter, except self._redis_no_script_error:
\* int(self._client.eval(self._WINDOW_SCRIPT, 1, redis_key, self.window_seconds))
Eval(t) ==
    /\ r_pc[t] = "eval"
    /\ hr_calls' = [hr_calls EXCEPT ![t] = @ + 1]
    /\ hr_attempts' = [hr_attempts EXCEPT ![t] = @ + 1]
    /\ \/ /\ \E garbled \in BOOLEAN : RunScript(t, garbled)
          /\ r_pc' = [r_pc EXCEPT ![t] = "replied"]
       \/ /\ \E applied \in BOOLEAN : LostCall(t, applied)
          /\ r_pc' = [r_pc EXCEPT ![t] = "failed"]
    /\ UNCHANGED <<wall, localAll, identAll, guardAll, extAll, sharedCfg, sharedObj,
                   r_key, r_now, r_redis_key, r_last, d_response, mono,
                   hr_true, hr_ncalls, hr_ndone>>

\* a success that leaves the breaker as it was
ClearNothing(until) == until

\* self._degraded_until = 0.0
ClearDegraded(until) == 0

\* allow(), after the try: current = int(reply); a reply int() cannot convert raises
\* ValueError or TypeError, which "except self._redis_base_error" does not catch
AllowReplied(t) ==
    /\ r_pc[t] = "replied"
    /\ IF r_reply[t].kind = "int"
       THEN LET rk == r_redis_key[t]
                ret == AllowDecision(r_reply[t].n, RequestsPerMinute)
            IN /\ degraded_until' = ClearDegraded(degraded_until)
               /\ Finish(t, Returned(ret), "replied")
               /\ hr_true' = [hr_true EXCEPT ![rk] =
                                 IF ret /\ ~hr_dirty[rk] THEN @ + 1 ELSE @]
       ELSE /\ Finish(t, "raise", "raised")
            /\ UNCHANGED <<degraded_until, hr_true>>
    /\ UNCHANGED <<wall, localAll, identAll, guardAll, extAll, sharedCfg, client, script_sha, sharedEnv,
                   hr_runs, hr_dirty, hr_ncalls>>

\* self._degraded_until = now + float(self.failure_cooldown_seconds)
OpenBreaker(now, cooldown) == now + cooldown

\* allow(), except self._redis_base_error: open the breaker, return self.fail_open
AllowFailed(t) ==
    /\ r_pc[t] = "failed"
    /\ degraded_until' = OpenBreaker(r_now[t], FailureCooldownSeconds)
    /\ Finish(t, Returned(r_fail_open), "failed")
    /\ UNCHANGED <<wall, localAll, identAll, guardAll, extAll, sharedCfg, client, script_sha, sharedEnv,
                   hr_true, hr_runs, hr_dirty, hr_ncalls>>

\* the monotonic clock advances
MonoTick ==
    /\ mono < MaxMono
    /\ mono' = mono + 1
    /\ UNCHANGED <<wall, localAll, identAll, guardAll, extAll, sharedCfg, sharedObj, sharedCall, sharedHist,
                   store, expire_at>>

\* the wall clock advances under the Redis limiter
WallTickShared ==
    /\ wall < MaxSharedWall
    /\ WallTick

\* the in-memory limiter, constructed and unused
IdleLocal ==
    /\ m_rpm = 0
    /\ windows = <<>>
    /\ m_pc = [t \in Threads |-> "idle"]
    /\ m_key = [t \in Threads |-> "a"]
    /\ m_now_window = [t \in Threads |-> 0]
    /\ m_ret = [t \in Threads |-> "none"]
    /\ h_bucket = [t \in Threads |-> 0]
    /\ h_ord = [t \in Threads |-> 0]
    /\ h_calls = [x \in Identities \X Buckets |-> 0]
    /\ h_true = [x \in Identities \X Buckets |-> 0]
    /\ h_ncalls = 0

\* RedisRateLimiter.__init__ and the store it talks to
InitSharedObject ==
    /\ client = (IF Enabled THEN "conn" ELSE "none")
    /\ script_sha = "none"
    /\ degraded_until = 0
    /\ r_pc = [t \in Threads |-> "idle"]
    /\ r_key = [t \in Threads |-> "a"]
    /\ r_now = [t \in Threads |-> 0]
    /\ r_redis_key = [t \in Threads |-> NoKey]
    /\ r_reply = [t \in Threads |-> NoReply]
    /\ r_last = NoCall
    /\ d_response = NoVerdict
    /\ mono = 0
    /\ store = [rk \in RedisKeys |-> 0]
    /\ expire_at = [rk \in RedisKeys |-> 0]
    /\ hr_calls = [t \in Threads |-> 0]
    /\ hr_attempts = [t \in Threads |-> 0]
    /\ hr_incr = [t \in Threads |-> 0]
    /\ hr_true = [rk \in RedisKeys |-> 0]
    /\ hr_runs = [rk \in RedisKeys |-> 0]
    /\ hr_dirty = [rk \in RedisKeys |-> FALSE]
    /\ hr_ncalls = 0
    /\ hr_ndone = 0

\* the Redis limiter, not constructed
IdleShared ==
    /\ r_rpm = 0
    /\ r_window = 60
    /\ r_cooldown = 1
    /\ r_fail_open = TRUE
    /\ InitSharedObject

\* no request has reached the rate-limit dependency
IdleDependency == d_resolved = FALSE

\* the fields of Config the model follows, at the defaults of config.py except
\* MAX_REQUEST_BODY_BYTES, which is the model's limit
DefaultConfig ==
    [RATE_LIMIT_BACKEND |-> "memory",
     REDIS_URL |-> "none",
     RATE_LIMIT_REDIS_FAILURE_COOLDOWN_SECONDS |-> 5,
     RATE_LIMIT_REDIS_WINDOW_SECONDS |-> 65,
     MAX_REQUEST_BODY_BYTES |-> MaxBodyBytes,
     TRUSTED_PROXY_CIDRS |-> <<>>]

\* create_app has not been called
NoApp == [state |-> "none", error |-> ""]

\* create_app not called
IdleStartup == config = DefaultConfig /\ app = NoApp

\* two limiter objects, constructed and unused
IdleInstances ==
    /\ inst_rpm = 0
    /\ inst_windows = [i \in Instances |-> <<>>]
    /\ inst_log = [i \in Instances |-> <<>>]

\* no request at a protected endpoint
IdleAdmission ==
    /\ a_require = [api_key |-> FALSE, jwt |-> FALSE]
    /\ a_request = [x_api_key |-> "None", authorization |-> "None", identity |-> "a"]
    /\ a_stage = 0
    /\ a_trace = <<>>
    /\ a_allow = 0
    /\ a_windows0 = <<>>
    /\ a_nreq = 0

\* the components outside the limiters, the resolver and the guard, unused
IdleOther == IdleStartup /\ IdleInstances /\ IdleAdmission

(* ---------------------------------------------------------------------- *)
(* The body guard (app/bootstrap/middleware.py): values                    *)
(* ---------------------------------------------------------------------- *)

\* a details dict: its keys, and the value under each key
NoDetails ==
    [keys |-> {}, max_request_body_bytes |-> 0, content_length |-> 0, request_body_bytes |-> 0]

\* no response
NoResponse ==
    [kind |-> "none", status |-> 0, code |-> "", message |-> "", details |-> NoDetails]

\* no Content-Length header
NoContentLength ==
    [present |-> FALSE, padded |-> FALSE, sign |-> "", body |-> "empty", n |-> 0]

\* content_length = None
NoneLength == [set |-> FALSE, n |-> 0]

\* no request
IdleGuard ==
    /\ g_method = "GET"
    /\ g_api = FALSE
    /\ g_route = FALSE
    /\ g_header = NoContentLength
    /\ g_stream = <<0>>
    /\ g_pos = 0
    /\ g_pc = "none"
    /\ g_wrapped = FALSE
    /\ content_length = NoneLength
    /\ received_bytes = 0
    /\ guard_details = NoDetails
    /\ g_delivered = <<>>
    /\ response = NoResponse
    /\ g_called = FALSE

(* ---------------------------------------------------------------------- *)
(* Client identity (app/security_proxy.py)                                 *)
(* ---------------------------------------------------------------------- *)

\* A string is a sequence of tokens. An IP literal is one token, "x" is text
\* that is no IP literal, "," and " " are the comma and whitespace.
IpLiterals == {"127.0.0.1", "10.0.0.1", "2001:db8::1", "203.0.113.5"}

\* hops an X-Forwarded-For value is made of: empty, blank, a literal, a literal
\* inside whitespace, another literal, text
HopStrings ==
    {<<>>, <<" ">>, <<"203.0.113.5">>, <<" ", "203.0.113.5", " ">>, <<"2001:db8::1">>, <<"x">>}

\* the hops, comma-separated
RECURSIVE Join(_)
Join(hops) ==
    IF Len(hops) = 1 THEN hops[1] ELSE hops[1] \o <<",">> \o Join(Tail(hops))

HeaderStrings == {Join(hops) : hops \in UNION {[1 .. n -> HopStrings] : n \in 1 .. MaxHops}}

\* hops of a header value
HopCount(s) == 1 + Cardinality({i \in DOMAIN s : s[i] = ","})

\* a header of the request: absent, or present with a value
NoHeader == [present |-> FALSE, val |-> <<>>]

Header(v) == [present |-> TRUE, val |-> v]

XffHeaders == {NoHeader} \cup {Header(v) : v \in HeaderStrings}

RequestIdHeaders == {NoHeader, Header(<<"test-request-id">>)}

RealIpHeaders == {NoHeader, Header(<<"203.0.113.5">>)}

\* request.client: None, or an object with a host
NoClient == [present |-> FALSE, host |-> <<>>]

Clients ==
    {NoClient} \cup
    {[present |-> TRUE, host |-> <<h>>] : h \in {"127.0.0.1", "10.0.0.1", "testclient"}}

Requests ==
    [client : Clients, xff : XffHeaders, rid : RequestIdHeaders, xrip : RealIpHeaders]

\* lists of networks; a network is the set of the literals inside it
\* (127.0.0.0/8 holds 127.0.0.1, ::1/128 holds none of the literals)
NetworkLists == {<<>>, <<{"127.0.0.1"}>>, <<{}, {"127.0.0.1"}>>}

\* ipaddress.ip_address(s) does not raise ValueError
IsIpAddress(s) == Len(s) = 1 /\ s[1] \in IpLiterals

\* return request.client.host if request.client else "unknown"
remote_ip(req) == IF req.client.present THEN req.client.host ELSE <<"unknown">>

\* a test that trusts every peer once a network is configured
is_trusted_proxy_any(remote_ip_value, networks) == networks # <<>>

is_trusted_proxy(remote_ip_value, networks) ==
    IF networks = <<>>
    THEN FALSE
    ELSE IF ~IsIpAddress(remote_ip_value)
    THEN FALSE
    ELSE \E i \in DOMAIN networks : remote_ip_value[1] \in networks[i]

\* the hop after the last comma
RECURSIVE LastHop(_)
LastHop(s) ==
    IF s = <<>> THEN <<>>
    ELSE IF s[Len(s)] = "," THEN <<>>
    ELSE Append(LastHop(SubSeq(s, 1, Len(s) - 1)), s[Len(s)])

\* s.split(",")[0]
RECURSIVE SplitFirst(_)
SplitFirst(s) ==
    IF s = <<>> THEN <<>>
    ELSE IF Head(s) = "," THEN <<>>
    ELSE <<Head(s)>> \o SplitFirst(Tail(s))

RECURSIVE LStrip(_)
LStrip(s) ==
    IF s # <<>> /\ Head(s) = " " THEN LStrip(Tail(s)) ELSE s

RECURSIVE RStrip(_)
RStrip(s) ==
    IF s # <<>> /\ s[Len(s)] = " " THEN RStrip(SubSeq(s, 1, Len(s) - 1)) ELSE s

\* s.strip()
Strip(s) == RStrip(LStrip(s))

client_key(req, networks) ==
    LET resolved_remote_ip == remote_ip(req)
        forwarded_for == req.xff
        first_hop == Strip(SplitFirst(forwarded_for.val))
    IN IF ~is_trusted_proxy(resolved_remote_ip, networks) THEN resolved_remote_ip
       ELSE IF ~forwarded_for.present \/ forwarded_for.val = <<>> THEN resolved_remote_ip
       ELSE IF first_hop = <<>> THEN resolved_remote_ip
       ELSE IF IsIpAddress(first_hop) THEN first_hop
       ELSE resolved_remote_ip

\* the dependency calls client_key on the request
Resolve ==
    /\ i_pc = "received"
    /\ resolved_key' = client_key(request, trusted_proxy_networks)
    /\ i_pc' = "resolved"
    /\ UNCHANGED <<wall, localAll, sharedAll, guardAll, extAll, trusted_proxy_networks, request>>

\* the next request to the same application, resolved on arrival
Arrive(req) ==
    /\ i_pc = "resolved"
    /\ request' = req
    /\ resolved_key' = client_key(req, trusted_proxy_networks)
    /\ UNCHANGED <<wall, localAll, sharedAll, guardAll, extAll, trusted_proxy_networks, i_pc>>

\* the same request again with another X-Forwarded-For header
Reforward(h) ==
    /\ h # request.xff
    /\ Arrive([request EXCEPT !.xff = h])

\* the same request again with one more hop at the end of X-Forwarded-For
AppendHop(hop) ==
    /\ request.xff.present
    /\ HopCount(request.xff.val) < MaxHops
    /\ Arrive([request EXCEPT !.xff.val = @ \o <<",">> \o hop])

\* no request yet
IdleIdentity ==
    /\ trusted_proxy_networks = <<>>
    /\ request = [client |-> NoClient, xff |-> NoHeader, rid |-> NoHeader, xrip |-> NoHeader]
    /\ i_pc = "none"
    /\ resolved_key = <<>>

InitIdentity ==
    /\ wall = 0
    /\ rate_limit_backend = "memory"
    /\ IdleDependency
    /\ IdleOther
    /\ IdleLocal
    /\ IdleShared
    /\ IdleGuard
    /\ trusted_proxy_networks \in NetworkLists
    /\ request \in Requests
    /\ i_pc = "received"
    /\ resolved_key = <<>>

(* ---------------------------------------------------------------------- *)
(* The body guard (app/bootstrap/middleware.py): request_size_guard        *)
(* ---------------------------------------------------------------------- *)

Methods == {"GET", "DELETE", "POST", "PUT", "PATCH"}

WRITE_METHODS == {"POST", "PUT", "PATCH"}

\* a Content-Length header of digits, with or without a minus sign and padding
DigitsHeader(padded, sign, n) ==
    [present |-> TRUE, padded |-> padded, sign |-> sign, body |-> "digits", n |-> n]

\* Content-Length headers: none, "", " ", "invalid", "-1", the numbers up to one
\* over the limit, and " <limit + 1> "
ContentLengthHeaders ==
    {NoContentLength,
     [present |-> TRUE, padded |-> FALSE, sign |-> "", body |-> "empty", n |-> 0],
     [present |-> TRUE, padded |-> TRUE, sign |-> "", body |-> "empty", n |-> 0],
     [present |-> TRUE, padded |-> FALSE, sign |-> "", body |-> "junk", n |-> 0],
     DigitsHeader(FALSE, "-", 1),
     DigitsHeader(TRUE, "", MaxBodyBytes + 1)}
        \cup {DigitsHeader(FALSE, "", n) : n \in 0 .. MaxBodyBytes + 1}

\* lengths of a chunk: a single chunk can exceed the limit
ChunkLens == 0 .. MaxBodyBytes + 1

\* bodies as the transport delivers them: at least one message
Streams == UNION {[1 .. n -> ChunkLens] : n \in 1 .. MaxChunks}

\* statuses of a response of the handler of an existing route
HandlerStatuses == {200, 422}

\* statuses the router answers when no route matches the path or the method
RouterStatuses == {404, 405}

RECURSIVE BytesBefore(_, _)
BytesBefore(stream, i) ==
    IF i <= 1 THEN 0 ELSE BytesBefore(stream, i - 1) + stream[i - 1]

\* the bytes of the i-th chunk; a byte is named by its offset in the body
ChunkBytes(stream, i) == [j \in 1 .. stream[i] |-> BytesBefore(stream, i) + j]

Disconnect == [type |-> "http.disconnect", body |-> <<>>, more_body |-> FALSE]

\* the message original_receive() returns on its i-th call
TransportMessage(stream, i) ==
    IF i <= Len(stream)
    THEN [type |-> "http.request", body |-> ChunkBytes(stream, i), more_body |-> i < Len(stream)]
    ELSE Disconnect

\* a guard that covers every request
IsAnyRequest(api, method) == TRUE

\* _is_request_size_guard_target
IsRequestSizeGuardTarget(api, method) == api /\ method \in WRITE_METHODS

\* content_length_raw = (request.headers.get("content-length") or "").strip()
\* is not empty
ContentLengthRaw(h) == h.present /\ (h.sign # "" \/ h.body # "empty")

\* a parse that never raises ValueError
IntParsesAnything(h) == TRUE

\* int(content_length_raw) does not raise ValueError
IntParses(h) == h.body = "digits"

\* int(content_length_raw)
IntValue(h) == IF h.sign = "-" THEN 0 - h.n ELSE h.n

\* _invalid_content_length_response
InvalidContentLengthResponse ==
    [kind |-> "response", status |-> 400, code |-> "BAD_REQUEST",
     message |-> "Invalid Content-Length header", details |-> NoDetails]

\* _payload_too_large_response
PayloadTooLargeResponse(details) ==
    [kind |-> "response", status |-> 413, code |-> "PAYLOAD_TOO_LARGE",
     message |-> "Payload Too Large", details |-> details]

\* the response call_next returned, passed on
DownstreamResponse(status) ==
    [kind |-> "response", status |-> status, code |-> "", message |-> "",
     details |-> NoDetails]

\* the exception call_next raised, raised again
DownstreamException ==
    [kind |-> "raise", status |-> 0, code |-> "", message |-> "", details |-> NoDetails]

\* details of the 413 for a declared length over the limit
DeclaredDetails(limit, declared) ==
    [keys |-> {"max_request_body_bytes", "content_length"},
     max_request_body_bytes |-> limit, content_length |-> declared,
     request_body_bytes |-> 0]

\* overflow details that always have a content_length key
OverflowDetailsDeclared(limit, total, declared) ==
    [keys |-> {"max_request_body_bytes", "request_body_bytes", "content_length"},
     max_request_body_bytes |-> limit,
     content_length |-> (IF declared.set THEN declared.n ELSE 0),
     request_body_bytes |-> total]

\* overflow_details of guarded_receive
OverflowDetails(limit, total, declared) ==
    [keys |-> {"max_request_body_bytes", "request_body_bytes"}
                 \cup (IF declared.set THEN {"content_length"} ELSE {}),
     max_request_body_bytes |-> limit,
     content_length |-> (IF declared.set THEN declared.n ELSE 0),
     request_body_bytes |-> total]

\* {"type": "http.request", "body": b"", "more_body": False}
EndOfBody == [type |-> "http.request", body |-> <<>>, more_body |-> FALSE]

\* a guard that lets the overflowing chunk through
GuardedMessagePassing(message, total, limit) == message

\* what guarded_receive returns for an http.request message
GuardedMessage(message, total, limit) ==
    IF total > limit THEN EndOfBody ELSE message

\* a test that turns away a declared length equal to the limit
DeclaredAtLimitTooLarge(declared, limit) == declared >= limit

\* a test that lets a declared length over the limit through
DeclaredTooLargeNever(declared, limit) == FALSE

\* if content_length > max_request_body_bytes
DeclaredTooLarge(declared, limit) == declared > limit

\* request_size_guard up to call_next
GuardEnter ==
    /\ g_pc = "start"
    /\ IF ~IsRequestSizeGuardTarget(g_api, g_method)
       THEN /\ g_pc' = "downstream"
            /\ g_called' = TRUE
            /\ UNCHANGED <<g_wrapped, content_length, received_bytes, response>>
       ELSE IF ContentLengthRaw(g_header) /\ ~IntParses(g_header)
       THEN /\ response' = InvalidContentLengthResponse
            /\ g_pc' = "done"
            /\ UNCHANGED <<g_wrapped, content_length, received_bytes, g_called>>
       ELSE IF ContentLengthRaw(g_header)
                 /\ DeclaredTooLarge(IntValue(g_header), MaxBodyBytes)
       THEN /\ response' = PayloadTooLargeResponse(
                               DeclaredDetails(MaxBodyBytes, IntValue(g_header)))
            /\ g_pc' = "done"
            /\ UNCHANGED <<g_wrapped, content_length, received_bytes, g_called>>
       ELSE /\ content_length' = IF ContentLengthRaw(g_header)
                                 THEN [set |-> TRUE, n |-> IntValue(g_header)]
                                 ELSE NoneLength
            /\ received_bytes' = 0
            /\ g_wrapped' = TRUE
            /\ g_pc' = "downstream"
            /\ g_called' = TRUE
            /\ UNCHANGED response
    /\ UNCHANGED <<wall, localAll, sharedAll, identAll, extAll, g_method, g_api, g_route,
                   g_header, g_stream, g_pos, guard_details, g_delivered>>

\* the downstream pipeline awaits request.receive(): guarded_receive when the
\* guard replaced it, the transport's receive otherwise
Receive ==
    /\ g_pc = "downstream"
    /\ g_route
    /\ g_pos <= Len(g_stream)
    /\ g_pos' = g_pos + 1
    /\ LET message == TransportMessage(g_stream, g_pos + 1)
           total == received_bytes + Len(message.body)
       IN IF ~g_wrapped \/ message.type # "http.request"
          THEN /\ g_delivered' = Append(g_delivered, message)
               /\ UNCHANGED <<received_bytes, guard_details>>
          ELSE /\ received_bytes' = total
               /\ guard_details' = IF total > MaxBodyBytes
                                   THEN OverflowDetails(MaxBodyBytes, total, content_length)
                                   ELSE guard_details
               /\ g_delivered' = Append(g_delivered,
                                        GuardedMessage(message, total, MaxBodyBytes))
    /\ UNCHANGED <<wall, localAll, sharedAll, identAll, extAll, g_method, g_api, g_route,
                   g_header, g_stream, g_pc, g_wrapped, content_length, response, g_called>>

\* a guard that passes on what the pipeline answered
AfterDownstreamPassing(details, outcome) == outcome

\* request_size_guard after call_next: the 413 when the details are set, else
\* the response, or the exception, of the pipeline
AfterDownstream(details, outcome) ==
    IF details.keys # {} THEN PayloadTooLargeResponse(details) ELSE outcome

\* call_next returns a response: the handler's, or the router's when no route matches
DownstreamReturns(status) ==
    /\ g_pc = "downstream"
    /\ status \in (IF g_route THEN HandlerStatuses ELSE RouterStatuses)
    /\ response' = AfterDownstream(guard_details, DownstreamResponse(status))
    /\ g_pc' = "done"
    /\ UNCHANGED <<wall, localAll, sharedAll, identAll, extAll, g_method, g_api, g_route,
                   g_header, g_stream, g_pos, g_wrapped, content_length, received_bytes,
                   guard_details, g_delivered, g_called>>

\* call_next raises
DownstreamRaises ==
    /\ g_pc = "downstream"
    /\ response' = AfterDownstream(guard_details, DownstreamException)
    /\ g_pc' = "done"
    /\ UNCHANGED <<wall, localAll, sharedAll, identAll, extAll, g_method, g_api, g_route,
                   g_header, g_stream, g_pos, g_wrapped, content_length, received_bytes,
                   guard_details, g_delivered, g_called>>

\* a request arrives at the guard
InitGuard ==
    /\ wall = 0
    /\ rate_limit_backend = "memory"
    /\ IdleDependency
    /\ IdleOther
    /\ IdleLocal
    /\ IdleShared
    /\ IdleIdentity
    /\ g_method \in Methods
    /\ g_api \in BOOLEAN
    /\ g_route \in BOOLEAN
    /\ g_header \in ContentLengthHeaders
    /\ g_stream \in Streams
    /\ g_pos = 0
    /\ g_pc = "start"
    /\ g_wrapped = FALSE
    /\ content_length = NoneLength
    /\ received_bytes = 0
    /\ guard_details = NoDetails
    /\ g_delivered = <<>>
    /\ response = NoResponse
    /\ g_called = FALSE

(* ---------------------------------------------------------------------- *)
(* create_app (app/__init__.py) and the startup checks                     *)
(* ---------------------------------------------------------------------- *)

\* RATE_LIMIT_BACKEND values of the environment
BackendValues == {"memory", "redis", " Redis ", "", "invalid-backend"}

\* REDIS_URL values: unset, blank, a store address
RedisUrls == {"None", "   ", "redis://store:6379/0"}

\* RATE_LIMIT_REDIS_FAILURE_COOLDOWN_SECONDS values
CooldownValues == {-1, 0, 5}

\* RATE_LIMIT_REDIS_WINDOW_SECONDS values
WindowValues == {-1, 0, 65}

\* MAX_REQUEST_BODY_BYTES values
BodyLimitValues == {-1, 0, MaxBodyBytes}

\* TRUSTED_PROXY_CIDRS values, as the items between its commas
CidrLists ==
    { <<>>, <<"10.0.0.0/8">>, <<"not-a-cidr">>, <<"10.0.0.0/8", "not-a-cidr">>,
      <<" ">>, <<" ", "127.0.0.1/32">> }

Configs ==
    [RATE_LIMIT_BACKEND : BackendValues,
     REDIS_URL : RedisUrls,
     RATE_LIMIT_REDIS_FAILURE_COOLDOWN_SECONDS : CooldownValues,
     RATE_LIMIT_REDIS_WINDOW_SECONDS : WindowValues,
     MAX_REQUEST_BODY_BYTES : BodyLimitValues,
     TRUSTED_PROXY_CIDRS : CidrLists]

\* Config.rate_limit_backend: (self.RATE_LIMIT_BACKEND or "").strip().lower() or "memory"
BackendProperty(raw) ==
    CASE raw = " Redis " -> "redis"
      [] raw = "" -> "memory"
      [] OTHER -> raw

\* (config.REDIS_URL or "").strip()
StripUrl(url) == IF url \in {"None", "   "} THEN "" ELSE url

\* item.strip() of an item of the list
StripItem(item) == IF item = " " THEN "" ELSE item

\* ip_network(value, strict=False) returns a network (it does not raise ValueError)
IsNetwork(value) == value \in {"10.0.0.0/8", "127.0.0.1/32"}

\* startup checks that pass everything
validate_nothing(c) == ""

\* validate_startup_config: the message of the first check that raises, "" when
\* none does. The checks of fields the model holds at their defaults pass.
validate_startup_config(c) ==
    IF BackendProperty(c.RATE_LIMIT_BACKEND) \notin {"memory", "redis"}
    THEN "RATE_LIMIT_BACKEND must be one of: memory, redis."
    ELSE IF BackendProperty(c.RATE_LIMIT_BACKEND) = "redis" /\ StripUrl(c.REDIS_URL) = ""
    THEN "RATE_LIMIT_BACKEND=redis requires REDIS_URL to be set."
    ELSE IF c.RATE_LIMIT_REDIS_FAILURE_COOLDOWN_SECONDS <= 0
    THEN "RATE_LIMIT_REDIS_FAILURE_COOLDOWN_SECONDS must be greater than 0."
    ELSE IF c.MAX_REQUEST_BODY_BYTES <= 0
    THEN "MAX_REQUEST_BODY_BYTES must be greater than 0."
    ELSE ""

\* build_rate_limiter: the message of the RuntimeError it raises, "" when it
\* returns a limiter
build_rate_limiter(c) ==
    IF BackendProperty(c.RATE_LIMIT_BACKEND) = "redis"
    THEN IF StripUrl(c.REDIS_URL) = ""
         THEN "RATE_LIMIT_BACKEND=redis requires REDIS_URL to be set."
         ELSE ""
    ELSE IF BackendProperty(c.RATE_LIMIT_BACKEND) = "memory"
    THEN ""
    ELSE "RATE_LIMIT_BACKEND must be one of: memory, redis."

\* parse_trusted_proxy_networks: blank items are skipped; the first item
\* ip_network rejects raises RuntimeError
parse_trusted_proxy_networks(cidrs) ==
    IF \E i \in 1 .. Len(cidrs) : StripItem(cidrs[i]) # "" /\ ~IsNetwork(StripItem(cidrs[i]))
    THEN "Invalid TRUSTED_PROXY_CIDRS entry"
    ELSE ""

\* the first of the messages that is not ""
FirstError(messages) ==
    IF \E i \in 1 .. Len(messages) : messages[i] # ""
    THEN messages[CHOOSE i \in 1 .. Len(messages) :
                     /\ messages[i] # ""
                     /\ \A j \in 1 .. (i - 1) : messages[j] = ""]
    ELSE ""

\* create_app: validate_startup_config(app_config), then
\* build_rate_limit_dependency (the limiter, then the trusted networks), then
\* "return api"; an error raised on the way leaves the caller without an app
CreateApp ==
    /\ app.state = "none"
    /\ LET error == FirstError(<<validate_startup_config(config),
                                 build_rate_limiter(config),
                                 parse_trusted_proxy_networks(config.TRUSTED_PROXY_CIDRS)>>)
       IN app' = [state |-> IF error = "" THEN "returned" ELSE "raised", error |-> error]
    /\ UNCHANGED <<wall, localAll, sharedAll, identAll, guardAll, depAll, config, instAll,
                   admAll>>

InitStartup ==
    /\ wall = 0
    /\ IdleLocal
    /\ IdleShared
    /\ IdleIdentity
    /\ IdleGuard
    /\ rate_limit_backend = "memory"
    /\ IdleDependency
    /\ config \in Configs
    /\ app = NoApp
    /\ IdleInstances
    /\ IdleAdmission

(* ---------------------------------------------------------------------- *)
(* Limiter objects side by side (build_rate_limit_dependency builds one     *)
(* limiter per call)                                                       *)
(* ---------------------------------------------------------------------- *)

\* a map that belongs to the class: every object reads the first one's
ClassWindows(all, i) == all[1]

\* self._windows: the map is an attribute of the object, made in __init__
InstanceWindows(all, i) == all[i]

\* allow(key) on object i, from the enabled test to the return; one call at
\* a time
InstanceAllow(i, k) ==
    /\ Len(inst_log[1]) + Len(inst_log[2]) < MaxInstanceCalls
    /\ LET now_window == NowWindow(wall)
           ws == InstanceWindows(inst_windows, i)
           prev == Rollover(GetWindow(ws, k, now_window), now_window)
           count == prev[2] + 1
       IN IF Max(0, inst_rpm) > 0
          THEN /\ inst_windows' = [inst_windows EXCEPT ![i] =
                     Prune(StoreWindow(ws, k, <<prev[1], count>>), now_window)]
               /\ inst_log' = [inst_log EXCEPT ![i] =
                     Append(@, [key |-> k, window |-> now_window,
                                ret |-> AllowDecision(count, Max(0, inst_rpm))])]
          ELSE /\ inst_log' = [inst_log EXCEPT ![i] =
                     Append(@, [key |-> k, window |-> now_window, ret |-> TRUE])]
               /\ UNCHANGED inst_windows
    /\ UNCHANGED <<wall, localAll, sharedAll, identAll, guardAll, depAll, startAll, inst_rpm,
                   admAll>>

InitInstances ==
    /\ wall = 0
    /\ IdleLocal
    /\ IdleShared
    /\ IdleIdentity
    /\ IdleGuard
    /\ rate_limit_backend = "memory"
    /\ IdleDependency
    /\ IdleStartup
    /\ inst_rpm \in RpmConfigs
    /\ inst_windows = [i \in Instances |-> <<>>]
    /\ inst_log = [i \in Instances |-> <<>>]
    /\ IdleAdmission

(* ---------------------------------------------------------------------- *)
(* A protected endpoint: request_size_guard, then the route's dependencies  *)
(* (create_app, protected_dependencies), then the handler                   *)
(* ---------------------------------------------------------------------- *)

\* methods of the requests sent to the endpoint
AdmissionMethods == {"GET", "POST"}

\* Content-Length of the requests: none, "invalid", the limit, one over it
AdmissionHeaders ==
    {NoContentLength,
     [present |-> TRUE, padded |-> FALSE, sign |-> "", body |-> "junk", n |-> 0],
     DigitsHeader(FALSE, "", MaxBodyBytes),
     DigitsHeader(FALSE, "", MaxBodyBytes + 1)}

\* bodies of the requests: empty, one byte over the limit
AdmissionStreams == {<<0>>, <<MaxBodyBytes + 1>>}

\* X-API-Key: not sent, config.API_KEY, another key
ApiKeys == {"None", "secret", "wrong"}

\* Authorization: not sent, a token jwt.decode rejects, a valid token with the
\* read scope only, a valid token with the admin role
Authorizations == {"None", "Bearer bad", "Bearer reader", "Bearer admin"}

AdmissionRequests ==
    [x_api_key : ApiKeys, authorization : Authorizations, identity : Identities]

\* RATE_LIMIT_PER_MINUTE of the app: limiter off, one request per minute
AdmissionLimits == {0, 1}

\* a route that asks the limiter before it authenticates
RateLimitFirst == <<"rate_limit", "api_key", "jwt">>

\* protected_dependencies = [Depends(api_key_dependency), Depends(jwt_dependency),
\* Depends(rate_limit_dependency)]; the framework runs them in this order and
\* stops at the first that raises
protected_dependencies == <<"api_key", "jwt", "rate_limit">>

\* verify_api_key: 0 when it returns, else the status of the error it raises
verify_api_key(require_api_key, x_api_key) ==
    IF ~require_api_key THEN 0
    ELSE IF x_api_key = "None" THEN 401
    ELSE IF x_api_key # "secret" THEN 401
    ELSE 0

\* verify_jwt: 0 when it returns, else the status of the error it raises
\* (validate_jwt_hs256: 401; authorize_claims_for_request: 403 when the token
\* has neither the admin role nor the scope of the method)
verify_jwt(require_jwt, authorization, method) ==
    IF ~require_jwt THEN 0
    ELSE IF authorization = "None" THEN 401
    ELSE IF authorization = "Bearer bad" THEN 401
    ELSE IF authorization = "Bearer reader" /\ method \notin {"GET", "HEAD"} THEN 403
    ELSE 0

\* the dependency called name is next and runs: it returns (status 0) and the
\* next one is due, or it raises and the error response goes back through
\* the guard
DependencyStep(name, status) ==
    /\ g_pc = "downstream"
    /\ a_stage \in 1 .. Len(protected_dependencies)
    /\ protected_dependencies[a_stage] = name
    /\ a_trace' = Append(a_trace, name)
    /\ IF status = 0
       THEN /\ a_stage' = a_stage + 1
            /\ UNCHANGED <<g_pc, response>>
       ELSE /\ response' = AfterDownstream(guard_details, DownstreamResponse(status))
            /\ g_pc' = "done"
            /\ UNCHANGED a_stage
    /\ UNCHANGED <<wall, sharedAll, identAll, rate_limit_backend, startAll, instAll,
                   guardRequest, guardRun, a_require, a_request, a_windows0, a_nreq>>

VerifyApiKey ==
    /\ DependencyStep("api_key", verify_api_key(a_require.api_key, a_request.x_api_key))
    /\ UNCHANGED <<localAll, d_resolved, a_allow>>

VerifyJwt ==
    /\ DependencyStep("jwt", verify_jwt(a_require.jwt, a_request.authorization, g_method))
    /\ UNCHANGED <<localAll, d_resolved, a_allow>>

\* verify_rate_limit over the in-memory limiter: nothing when the limiter is
\* not enabled; else allow(_client_key(request)), all of it, and the 429 when
\* it returns false
VerifyRateLimit ==
    LET k == a_request.identity
        now_window == NowWindow(wall)
        prev == Rollover(GetWindow(windows, k, now_window), now_window)
        count == prev[2] + 1
        ret == AllowDecision(count, MemRequestsPerMinute)
    IN /\ d_resolved' = ResolvesIdentity(MemEnabled)
       /\ IF ~MemEnabled
          THEN /\ DependencyStep("rate_limit", 0)
               /\ UNCHANGED <<windows, a_allow>>
          ELSE /\ DependencyStep("rate_limit", IF ret THEN 0 ELSE 429)
               /\ windows' = Prune(StoreWindow(windows, k, <<prev[1], count>>), now_window)
               /\ a_allow' = a_allow + 1
       /\ UNCHANGED <<m_rpm, m_pc, m_key, m_now_window, m_ret, memHist>>

\* every dependency returned: the handler answers
Handler ==
    /\ g_pc = "downstream"
    /\ a_stage = Len(protected_dependencies) + 1
    /\ response' = AfterDownstream(guard_details, DownstreamResponse(200))
    /\ g_pc' = "done"
    /\ UNCHANGED <<wall, localAll, sharedAll, identAll, depAll, startAll, instAll,
                   guardRequest, guardRun, admAll>>

\* the next request to the endpoint arrives at the guard
NextRequest ==
    /\ g_pc = "done"
    /\ a_nreq < MaxRequests
    /\ a_nreq' = a_nreq + 1
    /\ g_method' \in AdmissionMethods
    /\ g_header' \in AdmissionHeaders
    /\ g_stream' \in AdmissionStreams
    /\ a_request' \in AdmissionRequests
    /\ g_pc' = "start"
    /\ g_pos' = 0
    /\ g_wrapped' = FALSE
    /\ content_length' = NoneLength
    /\ received_bytes' = 0
    /\ guard_details' = NoDetails
    /\ g_delivered' = <<>>
    /\ response' = NoResponse
    /\ g_called' = FALSE
    /\ a_stage' = 1
    /\ a_trace' = <<>>
    /\ a_allow' = 0
    /\ a_windows0' = windows
    /\ UNCHANGED <<wall, localAll, sharedAll, identAll, depAll, startAll, instAll,
                   g_api, g_route, a_require>>

\* an app built over the in-memory limiter, and the first request at the guard
InitAdmission ==
    /\ InitLocal
    /\ m_rpm \in AdmissionLimits
    /\ IdleShared
    /\ IdleIdentity
    /\ rate_limit_backend = "memory"
    /\ IdleDependency
    /\ config = DefaultConfig
    /\ app = [state |-> "returned", error |-> ""]
    /\ IdleInstances
    /\ g_method \in AdmissionMethods
    /\ g_api = TRUE
    /\ g_route = TRUE
    /\ g_header \in AdmissionHeaders
    /\ g_stream \in AdmissionStreams
    /\ g_pos = 0
    /\ g_pc = "start"
    /\ g_wrapped = FALSE
    /\ content_length = NoneLength
    /\ received_bytes = 0
    /\ guard_details = NoDetails
    /\ g_delivered = <<>>
    /\ response = NoResponse
    /\ g_called = FALSE
    /\ a_require \in [api_key : BOOLEAN, jwt : BOOLEAN]
    /\ a_request \in AdmissionRequests
    /\ a_stage = 1
    /\ a_trace = <<>>
    /\ a_allow = 0
    /\ a_windows0 = <<>>
    /\ a_nreq = 1

InitShared ==
    /\ wall = 0
    /\ rate_limit_backend = "redis"
    /\ IdleDependency
    /\ IdleOther
    /\ IdleLocal
    /\ IdleIdentity
    /\ IdleGuard
    /\ \E c \in SharedConfigs :
          /\ r_rpm = c.rpm
          /\ r_window = c.window
          /\ r_cooldown = c.cooldown
          /\ r_fail_open = c.fail_open
    /\ InitSharedObject

Init ==
    /\ InitLocal /\ IdleShared /\ IdleIdentity /\ IdleGuard
    /\ rate_limit_backend = "memory"
    /\ IdleDependency
    /\ IdleOther

Next ==
    \/ \E t \in Threads, k \in Identities : MemAllowBegin(t, k)
    \/ \E t \in Threads : MemAllowLocked(t)
    \/ \E t \in Threads : MemAllowReturn(t)
    \/ WallTick

Spec == Init /\ [][Next]_vars

NextLocalSeq ==
    \/ \E t \in Threads, k \in Identities : MemAllowBeginSeq(t, k)
    \/ \E t \in Threads : MemAllowLocked(t)
    \/ \E t \in Threads : MemAllowReturn(t)
    \/ WallTick

SpecLocalSeq == Init /\ [][NextLocalSeq]_vars

InitMany ==
    /\ InitLocalMany
    /\ IdleShared
    /\ IdleIdentity
    /\ IdleGuard
    /\ rate_limit_backend = "memory"
    /\ IdleDependency
    /\ IdleOther

NextLocalMany ==
    \/ \E t \in Threads, k \in ManyIdentities : MemAllowBeginSeq(t, k)
    \/ \E t \in Threads : MemAllowLocked(t)
    \/ \E t \in Threads : MemAllowReturn(t)
    \/ WallTick

SpecLocalMany == InitMany /\ [][NextLocalMany]_vars

NextShared ==
    \/ \E t \in Threads, k \in SharedIdentities : AllowBegin(t, k)
    \/ \E t \in Threads : ScriptLoad(t)
    \/ \E t \in Threads : EvalSha(t)
    \/ \E t \in Threads : Eval(t)
    \/ \E t \in Threads : AllowReplied(t)
    \/ \E t \in Threads : AllowFailed(t)
    \/ MonoTick
    \/ WallTickShared

SpecShared == InitShared /\ [][NextShared]_vars

\* build_rate_limiter: the limiter of the configured backend, whichever it is
InitLimiter == Init \/ InitShared

NextLimiter ==
    \/ \E t \in Threads, k \in Identities :
          rate_limit_backend = "memory" /\ MemAllowBegin(t, k)
    \/ \E t \in Threads : rate_limit_backend = "memory" /\ MemAllowLocked(t)
    \/ \E t \in Threads : rate_limit_backend = "memory" /\ MemAllowReturn(t)
    \/ rate_limit_backend = "memory" /\ WallTick
    \/ \E t \in Threads, k \in SharedIdentities :
          rate_limit_backend = "redis" /\ AllowBegin(t, k)
    \/ \E t \in Threads : rate_limit_backend = "redis" /\ ScriptLoad(t)
    \/ \E t \in Threads : rate_limit_backend = "redis" /\ EvalSha(t)
    \/ \E t \in Threads : rate_limit_backend = "redis" /\ Eval(t)
    \/ \E t \in Threads : rate_limit_backend = "redis" /\ AllowReplied(t)
    \/ \E t \in Threads : rate_limit_backend = "redis" /\ AllowFailed(t)
    \/ rate_limit_backend = "redis" /\ MonoTick
    \/ rate_limit_backend = "redis" /\ WallTickShared

SpecLimiter == InitLimiter /\ [][NextLimiter]_vars

NextIdentity ==
    \/ Resolve
    \/ \E h \in XffHeaders : Reforward(h)
    \/ \E hop \in HopStrings : AppendHop(hop)

SpecIdentity == InitIdentity /\ [][NextIdentity]_vars

NextGuard ==
    \/ GuardEnter
    \/ Receive
    \/ \E status \in HandlerStatuses \cup RouterStatuses : DownstreamReturns(status)
    \/ DownstreamRaises

SpecGuard == InitGuard /\ [][NextGuard]_vars

NextInstances ==
    \/ \E i \in Instances, k \in Identities : InstanceAllow(i, k)
    \/ WallTick

SpecInstances == InitInstances /\ [][NextInstances]_vars

NextStartup == CreateApp

NextAdmission ==
    \/ GuardEnter
    \/ Receive
    \/ VerifyApiKey
    \/ VerifyJwt
    \/ VerifyRateLimit
    \/ Handler
    \/ NextRequest

SpecAdmission == InitAdmission /\ [][NextAdmission]_vars

SpecStartup == InitStartup /\ [][NextStartup]_vars

(* ---------------------------------------------------------------------- *)
(* C1                                                                      *)
(* ---------------------------------------------------------------------- *)

\* C1: with limit L > 0 and one allow() call at a time, a call for identity k
\* returns true iff it is at most the L-th allow(k) call of its 60-second
\* bucket; the calls of an earlier bucket do not count, so the first call
\* of k in a bucket returns true whatever the earlier count was.
C1_AllowIffWithinLimit ==
    \A t \in Threads :
        (MemEnabled /\ m_pc[t] = "done") =>
            /\ m_ret[t] = (h_ord[t] <= MemRequestsPerMinute)
            /\ (h_ord[t] = 1 => m_ret[t] = TRUE)

\* a call after the bucket advanced returned true although the identity had
\* used up its budget in the bucket before; another call was denied
C1_Witness ==
    \E t \in Threads :
        /\ MemEnabled
        /\ m_pc[t] = "done"
        /\ m_ret[t] = TRUE
        /\ h_ord[t] = 1
        /\ h_bucket[t] > 0
        /\ \E b \in Buckets :
              /\ b < h_bucket[t]
              /\ h_calls[<<m_key[t], b>>] > MemRequestsPerMinute
              /\ h_true[<<m_key[t], b>>] < h_calls[<<m_key[t], b>>]

(* ---------------------------------------------------------------------- *)
(* C2                                                                      *)
(* ---------------------------------------------------------------------- *)

\* C2: under any interleaving of allow(k) calls from several threads, those
\* that straddle a bucket boundary included, no update is lost: of the N
\* completed calls of one identity that belong to one bucket exactly
\* min(N, L) returned true (an increment recorded for the current bucket is
\* never discarded by a concurrent call).
C2_NoLostUpdate ==
    MemEnabled =>
        \A x \in Identities \X Buckets :
            h_true[x] = Min(h_calls[x], MemRequestsPerMinute)

(* ---------------------------------------------------------------------- *)
(* C3                                                                      *)
(* ---------------------------------------------------------------------- *)

\* threads holding an integer reply for key rk that allow() will turn into true
PendingTrue(rk) ==
    {t \in Threads : /\ r_pc[t] = "replied"
                     /\ r_redis_key[t] = rk
                     /\ r_reply[t].kind = "int"
                     /\ r_reply[t].n <= RequestsPerMinute}

\* C3: against a fresh key in one bucket and a store that answers every call,
\* the N allow() calls of one identity, in any interleaving, give exactly
\* min(N, limit) true results, and no two calls observe the same counter
\* value: increment-and-read is one step of the store.
C3_SharedAtomic ==
    Enabled =>
        \A rk \in RedisKeys :
            ~hr_dirty[rk] =>
                /\ hr_true[rk] + Cardinality(PendingTrue(rk))
                      = Min(hr_runs[rk], RequestsPerMinute)
                /\ \A t, u \in Threads :
                      (/\ t # u
                       /\ r_pc[t] = "replied" /\ r_pc[u] = "replied"
                       /\ r_redis_key[t] = rk /\ r_redis_key[u] = rk)
                          => r_reply[t].n # r_reply[u].n
                /\ \A t \in Threads :
                      (r_pc[t] = "replied" /\ r_redis_key[t] = rk)
                          => r_reply[t].n \in 1 .. hr_runs[rk]

\* two calls of one identity overlapped on a fresh key, limit 1: both got
\* their reply before either returned, one reply within the limit, one over it
C3_Witness ==
    /\ RequestsPerMinute = 1
    /\ \E rk \in RedisKeys :
          /\ ~hr_dirty[rk]
          /\ hr_runs[rk] = 2
          /\ \A t \in Threads : r_pc[t] = "replied" /\ r_redis_key[t] = rk
          /\ Cardinality(PendingTrue(rk)) = 1

(* ---------------------------------------------------------------------- *)
(* C4                                                                      *)
(* ---------------------------------------------------------------------- *)

\* a step in which an allow() call starts
Starts == hr_ncalls' = hr_ncalls + 1

\* a step in which the allow() call of thread t ends
Ends(t) == r_pc[t] # "idle" /\ r_pc'[t] = "idle"

\* a step in which thread t calls the store
StoreCall(t) == hr_calls'[t] = hr_calls[t] + 1

C4_Step ==
    /\ (Starts /\ Enabled /\ mono < degraded_until) =>
          /\ hr_ndone' = hr_ndone + 1
          /\ r_last' = [ret |-> Returned(r_fail_open), how |-> "degraded"]
          /\ \A t \in Threads : ~StoreCall(t) /\ r_pc'[t] = r_pc[t]
          /\ UNCHANGED <<store, expire_at, degraded_until>>
    /\ (Starts /\ Enabled /\ mono >= degraded_until) =>
          \E t \in Threads : r_pc[t] = "idle" /\ r_pc'[t] \in {"script_load", "evalsha"}
    /\ \A t \in Threads :
          (r_pc[t] = "failed") =>
              /\ ~StoreCall(t)
              /\ Ends(t) =>
                    /\ r_last' = [ret |-> Returned(r_fail_open), how |-> "failed"]
                    /\ degraded_until' = r_now[t] + FailureCooldownSeconds
                    /\ degraded_until' > r_now[t]
    /\ \A t \in Threads :
          (StoreCall(t) /\ hr_calls[t] = 0 /\ r_pc'[t] = "failed") =>
              hr_calls'[t] = 1

\* C4: the breaker. A store error ends the call with the fail_open value after
\* that one store attempt (it is not retried) and opens the breaker until
\* now + failure_cooldown_seconds; a call that starts while
\* monotonic_now < degraded_until returns the fail_open value and makes no store
\* call; a call that starts with monotonic_now >= degraded_until goes to the store.
C4_CircuitBreaker == [][C4_Step]_vars

\* the second call of a behaviour was answered by the open breaker: the first
\* had failed at the store, and the cooldown has not elapsed
C4_Witness ==
    /\ Enabled
    /\ hr_ndone = 2
    /\ r_last = [ret |-> Returned(r_fail_open), how |-> "degraded"]
    /\ mono < degraded_until
    /\ \A rk \in RedisKeys : store[rk] = 0

(* ---------------------------------------------------------------------- *)
(* C5                                                                      *)
(* ---------------------------------------------------------------------- *)

C5_Step ==
    \A t \in Threads :
        (r_pc[t] = "replied" /\ r_reply[t].kind = "int" /\ Ends(t)) =>
            /\ degraded_until' = 0
            /\ r_last' = [ret |-> Returned(r_reply[t].n <= RequestsPerMinute),
                          how |-> "replied"]

\* C5: recovery. Whenever the store increment of an allow() call succeeds,
\* the call clears degraded mode (degraded_until = 0) and returns
\* returned_count <= limit, not the fail_open value.
C5_Recovery == [][C5_Step]_vars

\* the first call failed at the store without incrementing, the cooldown
\* elapsed, and the second call counted normally and closed the breaker
C5_Witness ==
    /\ Enabled
    /\ hr_ndone = 2
    /\ r_last = [ret |-> "allow", how |-> "replied"]
    /\ r_fail_open = FALSE
    /\ degraded_until = 0
    /\ mono >= FailureCooldownSeconds
    /\ \E rk \in RedisKeys : store[rk] = 1 /\ hr_runs[rk] = 1
    /\ \A t \in Threads : r_pc[t] = "idle"

(* ---------------------------------------------------------------------- *)
(* C6                                                                      *)
(* ---------------------------------------------------------------------- *)

\* C6: allow() absorbs every store failure, a non-integer reply included: it
\* does not raise, it opens the breaker and returns the fail_open value.
C6_NeverRaises == r_last.ret # "raise"

(* ---------------------------------------------------------------------- *)
(* C7                                                                      *)
(* ---------------------------------------------------------------------- *)

C7_Step ==
    \A t \in Threads :
        /\ (r_pc[t] = "evalsha" /\ r_pc'[t] = "eval") =>
              /\ UNCHANGED <<store, expire_at, degraded_until, script_sha>>
              /\ r_redis_key'[t] = r_redis_key[t]
              /\ hr_attempts'[t] = 1
        /\ (r_pc[t] = "eval") =>
              /\ r_pc'[t] \in {"eval", "replied", "failed"}
              /\ r_pc'[t] # "eval" => hr_attempts'[t] = 2
              /\ r_pc'[t] = "replied" =>
                    /\ store' = [store EXCEPT ![r_redis_key[t]] =
                                    Live(store, expire_at, r_redis_key[t], wall) + 1]
                    /\ hr_incr'[t] = 1
        /\ (r_pc[t] = "replied" /\ hr_attempts[t] = 2 /\ r_reply[t].kind = "int" /\ Ends(t)) =>
              /\ hr_incr[t] = 1
              /\ r_last' = [ret |-> Returned(r_reply[t].n <= RequestsPerMinute),
                            how |-> "replied"]
              /\ degraded_until' = 0
        /\ (r_pc[t] = "failed" /\ hr_attempts[t] = 2 /\ Ends(t)) =>
              /\ r_last' = [ret |-> Returned(r_fail_open), how |-> "failed"]
              /\ degraded_until' = r_now[t] + FailureCooldownSeconds
        /\ hr_attempts'[t] <= 2

\* C7: when the store reports the cached script handle stale, allow() retries
\* the same increment once, with the script itself, in the same call: the key
\* is incremented exactly once, the call returns count <= limit and leaves
\* degraded mode cleared; a store error of the retry is handled as any store
\* error (breaker opened, fail_open value returned). No call makes more than
\* two increment attempts.
C7_StaleHandleRetry == [][C7_Step]_vars

\* a call whose EVALSHA found the handle stale has its reply from the retry
C7_Witness ==
    \E t \in Threads :
        /\ r_pc[t] = "replied"
        /\ hr_attempts[t] = 2
        /\ hr_incr[t] = 1
        /\ r_reply[t].kind = "int"
        /\ store[r_redis_key[t]] = r_reply[t].n

(* ---------------------------------------------------------------------- *)
(* C8                                                                      *)
(* ---------------------------------------------------------------------- *)

\* the direct peer of the request has an address inside one of the networks
PeerTrusted(req, networks) ==
    /\ req.client.present
    /\ IsIpAddress(req.client.host)
    /\ \E i \in DOMAIN networks : req.client.host[1] \in networks[i]

\* the two requests differ at most in X-Forwarded-For
SameButForwarding(r1, r2) ==
    r1.client = r2.client /\ r1.rid = r2.rid /\ r1.xrip = r2.xrip

C8_Step ==
    /\ (i_pc' = "resolved" /\ request'.client.present
          /\ ~PeerTrusted(request', trusted_proxy_networks')) =>
              resolved_key' = request'.client.host
    /\ (i_pc = "resolved" /\ i_pc' = "resolved"
          /\ SameButForwarding(request, request')
          /\ ~PeerTrusted(request, trusted_proxy_networks)) =>
              resolved_key' = resolved_key

\* C8: a peer that is in no trusted network (the list may be empty, the peer
\* may be no IP address) is its own identity whatever X-Forwarded-For says,
\* and two requests that differ only in X-Forwarded-For get the same identity.
C8_UntrustedPeerIgnoresForwarding == [][C8_Step]_vars

\* 10.0.0.1, outside the trusted networks, sent X-Forwarded-For: 203.0.113.5
C8_Witness ==
    /\ i_pc = "resolved"
    /\ trusted_proxy_networks # <<>>
    /\ request.client = [present |-> TRUE, host |-> <<"10.0.0.1">>]
    /\ request.xff = Header(<<"203.0.113.5">>)
    /\ resolved_key = <<"10.0.0.1">>

(* ---------------------------------------------------------------------- *)
(* C9                                                                      *)
(* ---------------------------------------------------------------------- *)

\* h is what precedes the first comma of s (all of s when it has no comma)
IsFirstHop(h, s) ==
    \E n \in 0 .. Len(s) :
        /\ h = SubSeq(s, 1, n)
        /\ \A i \in 1 .. n : s[i] # ","
        /\ n = Len(s) \/ s[n + 1] = ","

\* t is h without its leading and trailing whitespace
IsTrimOf(t, h) ==
    \E a \in 1 .. Len(h) + 1, b \in 0 .. Len(h) :
        /\ t = SubSeq(h, a, b)
        /\ \A i \in 1 .. a - 1 : h[i] = " "
        /\ \A i \in b + 1 .. Len(h) : h[i] = " "
        /\ t # <<>> => (t[1] # " " /\ t[Len(t)] # " ")

Pieces(s) == {SubSeq(s, a, b) : a \in 1 .. Len(s) + 1, b \in 0 .. Len(s)}

FirstHops(s) == {h \in {SubSeq(s, 1, n) : n \in 0 .. Len(s)} : IsFirstHop(h, s)}

\* the trimmed first hop of s, when it is an IP literal
ValidFirstHops(s) ==
    {t \in UNION {Pieces(h) : h \in FirstHops(s)} :
        /\ IsIpAddress(t)
        /\ \E h \in FirstHops(s) : IsTrimOf(t, h)}

\* s2 is s1 with further hops after it
HopsAdded(s1, s2) ==
    /\ Len(s2) > Len(s1)
    /\ SubSeq(s2, 1, Len(s1)) = s1
    /\ s2[Len(s1) + 1] = ","

C9_Step ==
    /\ (i_pc' = "resolved" /\ PeerTrusted(request', trusted_proxy_networks')) =>
          LET xff == request'.xff
              valid == IF xff.present THEN ValidFirstHops(xff.val) ELSE {}
          IN /\ valid # {} => resolved_key' \in valid
             /\ valid = {} => resolved_key' = request'.client.host
    /\ (i_pc = "resolved" /\ i_pc' = "resolved"
          /\ PeerTrusted(request, trusted_proxy_networks)
          /\ SameButForwarding(request, request')
          /\ request.xff.present /\ request'.xff.present
          /\ HopsAdded(request.xff.val, request'.xff.val)) =>
              resolved_key' = resolved_key

\* C9: for a peer inside a trusted network the identity is the first
\* comma-separated hop of X-Forwarded-For, trimmed, when that is an IP literal;
\* with the header absent or empty, or the first hop empty or no IP literal,
\* it is the peer address. Hops after the first never change the identity.
C9_TrustedPeerFirstHop == [][C9_Step]_vars

\* the trusted proxy 127.0.0.1 forwarded " 203.0.113.5 ,x"
C9_Witness ==
    /\ i_pc = "resolved"
    /\ PeerTrusted(request, trusted_proxy_networks)
    /\ request.xff = Header(<<" ", "203.0.113.5", " ", ",", "x">>)
    /\ resolved_key = <<"203.0.113.5">>

(* ---------------------------------------------------------------------- *)
(* C10                                                                     *)
(* ---------------------------------------------------------------------- *)

\* C10: a request without a direct peer is identified by
\* "request-id:" + X-Request-Id when that header is present, else by X-Real-IP
\* when present, else by "request:unknown".
C10_FallbackWithoutPeer ==
    (i_pc = "resolved" /\ ~request.client.present) =>
        resolved_key =
            IF request.rid.present THEN <<"request-id:">> \o request.rid.val
            ELSE IF request.xrip.present THEN request.xrip.val
            ELSE <<"request:unknown">>

(* ---------------------------------------------------------------------- *)
(* C11                                                                     *)
(* ---------------------------------------------------------------------- *)

\* the request is one the guard covers: POST, PUT or PATCH under /api/
Guarded == g_api /\ g_method \in {"POST", "PUT", "PATCH"}

\* the Content-Length header is an integer, whitespace around it aside
DeclaredInteger == g_header.present /\ g_header.body = "digits"

\* the integer the Content-Length header declares
Declared == IF g_header.sign = "-" THEN 0 - g_header.n ELSE g_header.n

\* C11: a guarded request whose Content-Length is an integer over
\* max_request_body_bytes is answered 413 PAYLOAD_TOO_LARGE, the details
\* holding the limit and the declared length, before any body message is read
\* and without the downstream pipeline being invoked.
C11_DeclaredOversize ==
    (g_pc \notin {"none", "start"} /\ Guarded /\ DeclaredInteger /\ Declared > MaxBodyBytes) =>
        /\ g_pc = "done"
        /\ response.kind = "response"
        /\ response.status = 413
        /\ response.code = "PAYLOAD_TOO_LARGE"
        /\ response.details.keys = {"max_request_body_bytes", "content_length"}
        /\ response.details.max_request_body_bytes = MaxBodyBytes
        /\ response.details.content_length = Declared
        /\ g_pos = 0
        /\ g_delivered = <<>>
        /\ ~g_called

\* a PUT under /api/ declaring " <limit + 1> " was answered 413
C11_Witness ==
    /\ g_pc = "done"
    /\ g_method = "PUT"
    /\ g_api
    /\ g_header = DigitsHeader(TRUE, "", MaxBodyBytes + 1)
    /\ response.status = 413
    /\ response.details.content_length = MaxBodyBytes + 1

(* ---------------------------------------------------------------------- *)
(* C12                                                                     *)
(* ---------------------------------------------------------------------- *)

\* body bytes in the first i messages of the transport
RECURSIVE BodyBytesUpTo(_)
BodyBytesUpTo(i) ==
    IF i = 0 THEN 0
    ELSE BodyBytesUpTo(i - 1) + (IF i <= Len(g_stream) THEN g_stream[i] ELSE 0)

\* the bodies of the first i messages delivered downstream, one after another
RECURSIVE DeliveredBytes(_)
DeliveredBytes(i) ==
    IF i = 0 THEN <<>> ELSE DeliveredBytes(i - 1) \o g_delivered[i].body

\* overflow is marked on the request
OverflowMarked == guard_details.keys # {}

\* C12: for a guarded request that reached the pipeline the guard's total is
\* the number of body bytes received so far; a body message is delivered
\* unchanged and in its place while the total is within the limit, and is
\* replaced by an empty end-of-body message, with overflow marked, once the
\* total exceeds the limit. The bytes delivered are a prefix of the
\* transport's bytes and never more than the limit.
C12_StreamedOverflow ==
    (Guarded /\ g_called) =>
        /\ received_bytes = BodyBytesUpTo(g_pos)
        /\ Len(g_delivered) = g_pos
        /\ \A i \in 1 .. g_pos :
              IF i > Len(g_stream) \/ BodyBytesUpTo(i) <= MaxBodyBytes
              THEN g_delivered[i] = TransportMessage(g_stream, i)
              ELSE /\ g_delivered[i] = [type |-> "http.request", body |-> <<>>,
                                        more_body |-> FALSE]
                   /\ OverflowMarked
        /\ OverflowMarked <=> received_bytes > MaxBodyBytes
        /\ LET bytes == DeliveredBytes(Len(g_delivered))
           IN /\ bytes = [j \in 1 .. Len(bytes) |-> j]
              /\ Len(bytes) <= MaxBodyBytes
              /\ Len(bytes) <= BodyBytesUpTo(g_pos)

\* a body of one byte and then a chunk that overflows: the first message got
\* through as it was, the second became the empty end of the body
C12_Witness ==
    /\ Guarded
    /\ g_stream = <<1, MaxBodyBytes>>
    /\ g_pos = 2
    /\ g_delivered = <<[type |-> "http.request", body |-> <<1>>, more_body |-> TRUE],
                       [type |-> "http.request", body |-> <<>>, more_body |-> FALSE]>>
    /\ OverflowMarked

(* ---------------------------------------------------------------------- *)
(* C13                                                                     *)
(* ---------------------------------------------------------------------- *)

C13_Step ==
    /\ OverflowMarked => (OverflowMarked' /\ guard_details'.keys = guard_details.keys)
    /\ (g_pc = "downstream" /\ g_pc' = "done" /\ OverflowMarked) =>
          /\ response'.kind = "response"
          /\ response'.status = 413
          /\ response'.code = "PAYLOAD_TOO_LARGE"
          /\ response'.message = "Payload Too Large"
          /\ response'.details = guard_details

\* C13: overflow, once marked, stays marked, and when the pipeline then
\* returns a response of any status or raises, the guard answers
\* 413 PAYLOAD_TOO_LARGE with the overflow details: neither the pipeline's
\* response nor its exception gets out.
C13_OverflowWins == [][C13_Step]_vars

\* the pipeline read past the limit, went on reading, and ended; the answer is 413
C13_Witness ==
    /\ g_pc = "done"
    /\ OverflowMarked
    /\ g_pos > 1
    /\ g_delivered[Len(g_delivered)].type = "http.disconnect"
    /\ response.status = 413
    /\ response.details.request_body_bytes > MaxBodyBytes

(* ---------------------------------------------------------------------- *)
(* C14                                                                     *)
(* ---------------------------------------------------------------------- *)

\* C14: every 413 of the guard has the limit in its details; it has
\* content_length, the declared value, iff the request had a Content-Length
\* header that is an integer; it has request_body_bytes, a value over the
\* limit, iff overflow was marked while the body was read. Both keys together
\* mean a declared length within the limit and a body over it.
C14_DetailsShape ==
    (g_pc = "done" /\ response.kind = "response" /\ response.status = 413) =>
        LET d == response.details
        IN /\ Guarded
           /\ "max_request_body_bytes" \in d.keys
           /\ d.max_request_body_bytes = MaxBodyBytes
           /\ d.keys \subseteq {"max_request_body_bytes", "content_length", "request_body_bytes"}
           /\ ("content_length" \in d.keys) <=> DeclaredInteger
           /\ ("content_length" \in d.keys) => d.content_length = Declared
           /\ ("request_body_bytes" \in d.keys) <=> (g_called /\ OverflowMarked)
           /\ ("request_body_bytes" \in d.keys) =>
                 /\ d.request_body_bytes > MaxBodyBytes
                 /\ d.request_body_bytes = BodyBytesUpTo(g_pos)
           /\ ~g_header.present => "content_length" \notin d.keys
           /\ ({"content_length", "request_body_bytes"} \subseteq d.keys) =>
                 (Declared <= MaxBodyBytes /\ BodyBytesUpTo(g_pos) > MaxBodyBytes)

\* a body declared as one byte turned out longer than the limit
C14_Witness ==
    /\ g_pc = "done"
    /\ g_header = DigitsHeader(FALSE, "", 1)
    /\ response.status = 413
    /\ response.details.keys = {"max_request_body_bytes", "content_length", "request_body_bytes"}
    /\ response.details.content_length = 1
    /\ response.details.request_body_bytes = MaxBodyBytes + 1

(* ---------------------------------------------------------------------- *)
(* C15                                                                     *)
(* ---------------------------------------------------------------------- *)

\* the Content-Length header has text that is no integer
DeclaredMalformed == g_header.present /\ g_header.body = "junk"

\* C15: a guarded request whose Content-Length has a value that is not an
\* integer is answered 400 BAD_REQUEST, never 413, with no body message read
\* and the downstream pipeline not invoked.
C15_MalformedContentLength ==
    (g_pc \notin {"none", "start"} /\ Guarded /\ DeclaredMalformed) =>
        /\ g_pc = "done"
        /\ response.kind = "response"
        /\ response.status = 400
        /\ response.status # 413
        /\ response.code = "BAD_REQUEST"
        /\ g_pos = 0
        /\ g_delivered = <<>>
        /\ ~g_called

\* a PATCH under /api/ with Content-Length: invalid and a body over the limit
C15_Witness ==
    /\ g_pc = "done"
    /\ g_method = "PATCH"
    /\ g_api
    /\ DeclaredMalformed
    /\ g_stream = <<MaxBodyBytes + 1>>
    /\ response.status = 400

(* ---------------------------------------------------------------------- *)
(* C16                                                                     *)
(* ---------------------------------------------------------------------- *)

\* C16: a guarded request whose Content-Length is a negative integer is
\* answered 400 BAD_REQUEST "Invalid Content-Length header" and never reaches
\* the downstream pipeline.
C16_NegativeContentLength ==
    (g_pc \notin {"none", "start"} /\ Guarded /\ DeclaredInteger /\ Declared < 0) =>
        /\ g_pc = "done"
        /\ response.status = 400
        /\ response.code = "BAD_REQUEST"
        /\ response.message = "Invalid Content-Length header"
        /\ ~g_called

(* ---------------------------------------------------------------------- *)
(* C17                                                                     *)
(* ---------------------------------------------------------------------- *)

\* the request breaks the size policy: a Content-Length that is no integer or
\* is over the limit, or a body longer than the limit
ViolatesSizePolicy ==
    \/ DeclaredMalformed
    \/ DeclaredInteger /\ Declared > MaxBodyBytes
    \/ BodyBytesUpTo(Len(g_stream)) > MaxBodyBytes

\* C17: a guarded request that breaks the size policy and has no route is
\* answered by the guard, 400 or 413, not by the router's 404 or 405.
C17_SizeBeforeRouting ==
    (g_pc = "done" /\ Guarded /\ ~g_route /\ ViolatesSizePolicy) =>
        (response.kind = "response" /\ response.status \in {400, 413})

(* ---------------------------------------------------------------------- *)
(* C18                                                                     *)
(* ---------------------------------------------------------------------- *)

\* what the pipeline can answer or raise
DownstreamOutcomes ==
    {DownstreamResponse(st) :
        st \in IF g_route THEN HandlerStatuses ELSE RouterStatuses}
        \cup {DownstreamException}

\* C18: for a request that is not POST, PUT or PATCH, or not under /api/, the
\* guard does not parse Content-Length, does not replace the receive channel
\* or count the body, marks no overflow, and returns what the pipeline
\* returned or raises what it raised, whatever the size of the body.
C18_UnguardedNoOp ==
    (g_pc \notin {"none", "start"} /\ ~Guarded) =>
        /\ g_called
        /\ ~g_wrapped
        /\ ~content_length.set
        /\ received_bytes = 0
        /\ ~OverflowMarked
        /\ Len(g_delivered) = g_pos
        /\ \A i \in 1 .. g_pos : g_delivered[i] = TransportMessage(g_stream, i)
        /\ g_pc = "done" => response \in DownstreamOutcomes

\* a POST outside /api/ with Content-Length: invalid sent more than the limit
\* in one chunk; the handler read all of it and answered 200
C18_Witness ==
    /\ g_pc = "done"
    /\ g_method = "POST"
    /\ ~g_api
    /\ DeclaredMalformed
    /\ g_stream = <<MaxBodyBytes + 1>>
    /\ g_pos = 1
    /\ Len(g_delivered[1].body) = MaxBodyBytes + 1
    /\ response.status = 200

(* ---------------------------------------------------------------------- *)
(* C19                                                                     *)
(* ---------------------------------------------------------------------- *)

\* C19: with the limiter enabled, the request reaches the handler exactly when
\* allow() returned true; when it returned false the response is 429
\* RATE_LIMITED with details reason rate_limit_exceeded, the configured
\* limit_per_minute and the backend name, and nothing else (no retry-after).
C19_DecisionToResponse ==
    (Enabled /\ r_last.ret # "none") =>
        /\ d_response.kind = "handler" <=> r_last.ret = "allow"
        /\ r_last.ret = "deny" =>
              /\ d_response.kind = "error"
              /\ d_response.status = 429
              /\ d_response.code = "RATE_LIMITED"
              /\ d_response.details.keys = {"reason", "limit_per_minute", "backend"}
              /\ d_response.details.reason = "rate_limit_exceeded"
              /\ d_response.details.limit_per_minute = r_rpm
              /\ d_response.details.backend = "redis"

\* the store counted past the limit, allow() returned false, the request got
\* the 429
C19_Witness ==
    /\ Enabled
    /\ r_last = [ret |-> "deny", how |-> "replied"]
    /\ d_response.status = 429
    /\ d_response.details.limit_per_minute = 1

(* ---------------------------------------------------------------------- *)
(* C20                                                                     *)
(* ---------------------------------------------------------------------- *)

\* the call ended because the store failed or the breaker was open
StoreTrouble == r_last.how \in {"failed", "degraded", "raised"}

\* C20: a request whose allow() call ended on a store failure or in degraded
\* mode gets the handler when fail_open is true and, when it is false, the same
\* 429 (status, code, message, details) as a request over its budget; nothing
\* in the response tells whether the store was reachable.
C20_NoStoreLeak ==
    (Enabled /\ StoreTrouble) =>
        d_response = (IF r_fail_open THEN HandlerReached ELSE RateLimited)

(* ---------------------------------------------------------------------- *)
(* C21                                                                     *)
(* ---------------------------------------------------------------------- *)

\* requests_per_minute <= 0 was handed to the limiter of the configured backend
LimitNotPositive ==
    IF rate_limit_backend = "memory" THEN m_rpm <= 0 ELSE r_rpm <= 0

C21_Step ==
    LimitNotPositive =>
        /\ \A t \in Threads : m_pc'[t] = "done" => m_ret'[t] = TRUE
        /\ hr_ndone' = hr_ndone + 1 => (r_last'.ret = "allow" /\ d_response' = HandlerReached)
        /\ windows = <<>> /\ windows' = <<>>
        /\ client = "none" /\ client' = "none"
        /\ \A t \in Threads : hr_calls'[t] = 0 /\ r_pc'[t] = "idle"
        /\ UNCHANGED <<store, expire_at, script_sha, degraded_until>>
        /\ d_resolved' = FALSE

\* C21: with requests_per_minute <= 0 every allow() call of either limiter
\* returns true, the in-memory map is never written, the Redis limiter has no
\* client and makes no store call, the degraded state never changes, and the
\* rate-limit dependency does not resolve the identity.
C21_DisabledLimiter == [][C21_Step]_vars

\* a Redis limiter built with a negative limit has answered two calls
C21_Witness ==
    /\ rate_limit_backend = "redis"
    /\ r_rpm < 0
    /\ hr_ndone = MaxSharedCalls
    /\ r_last = [ret |-> "allow", how |-> "disabled"]
    /\ client = "none"
    /\ ~d_resolved

(* ---------------------------------------------------------------------- *)
(* C22                                                                     *)
(* ---------------------------------------------------------------------- *)

\* the configuration has one of the listed faults
FatalConfig ==
    \/ config.RATE_LIMIT_BACKEND = "invalid-backend"
    \/ /\ config.RATE_LIMIT_BACKEND \in {"redis", " Redis "}
       /\ config.REDIS_URL \in {"None", "   "}
    \/ config.RATE_LIMIT_REDIS_FAILURE_COOLDOWN_SECONDS <= 0
    \/ config.MAX_REQUEST_BODY_BYTES <= 0
    \/ \E i \in 1 .. Len(config.TRUSTED_PROXY_CIDRS) :
          config.TRUSTED_PROXY_CIDRS[i] = "not-a-cidr"

\* C22: create_app raises, and returns no app that could serve a request,
\* when the backend is neither memory nor redis, when it is redis and the
\* store URL is missing or blank, when the failure cooldown or the body limit
\* is <= 0, or when a non-blank trusted-proxy entry does not parse.
C22_FatalConfiguration ==
    (app.state # "none" /\ FatalConfig) => (app.state = "raised" /\ app.error # "")

\* create_app raised on a configuration whose only fault is a trusted-proxy
\* entry that is no network
C22_Witness ==
    /\ app.state = "raised"
    /\ app.error = "Invalid TRUSTED_PROXY_CIDRS entry"
    /\ config.RATE_LIMIT_BACKEND = "redis"
    /\ config.REDIS_URL = "redis://store:6379/0"
    /\ config.RATE_LIMIT_REDIS_FAILURE_COOLDOWN_SECONDS > 0
    /\ config.MAX_REQUEST_BODY_BYTES > 0
    /\ config.TRUSTED_PROXY_CIDRS = <<"10.0.0.0/8", "not-a-cidr">>

(* ---------------------------------------------------------------------- *)
(* C23                                                                     *)
(* ---------------------------------------------------------------------- *)

\* C23: with a window_seconds <= 0 in the configuration create_app does not
\* return an app.
C23_WindowMustBePositive ==
    config.RATE_LIMIT_REDIS_WINDOW_SECONDS <= 0 => app.state # "returned"

(* ---------------------------------------------------------------------- *)
(* C24                                                                     *)
(* ---------------------------------------------------------------------- *)

\* a freshly constructed limiter after the first n calls of a log
RECURSIVE FreshAfter(_, _)
FreshAfter(log, n) ==
    IF n = 0 \/ Max(0, inst_rpm) = 0
    THEN <<>>
    ELSE LET ws == FreshAfter(log, n - 1)
             prev == Rollover(GetWindow(ws, log[n].key, log[n].window), log[n].window)
         IN Prune(StoreWindow(ws, log[n].key, <<prev[1], prev[2] + 1>>), log[n].window)

\* what a freshly constructed limiter returns to the n-th call of a log
FreshReturn(log, n) ==
    IF Max(0, inst_rpm) = 0
    THEN TRUE
    ELSE LET ws == FreshAfter(log, n - 1)
             prev == Rollover(GetWindow(ws, log[n].key, log[n].window), log[n].window)
         IN AllowDecision(prev[2] + 1, Max(0, inst_rpm))

\* the calls of a log without their results
CallsOf(log) == [n \in 1 .. Len(log) |-> <<log[n].key, log[n].window>>]

ApiKeyPasses == ~a_require.api_key \/ a_request.x_api_key = "secret"

\* the request carries what the JWT check asks for
JwtPasses ==
    \/ ~a_require.jwt
    \/ a_request.authorization = "Bearer admin"
    \/ a_request.authorization = "Bearer reader" /\ g_method = "GET"

\* the guard answered on the Content-Length header, before call_next
RejectedByHeader == g_pc = "done" /\ ~g_called /\ response.status \in {400, 413}

\* C25: at a protected endpoint the Content-Length check comes first, then
\* the API-key check, then the JWT check, then the rate-limit check;
\* limiter.allow() is called only after all the earlier checks passed, so a
\* request the header check answers with 400 or 413, or authentication with
\* 401 or 403, leaves every counter of the limiter as it was.
C25_AdmissionOrder ==
    /\ \E n \in 0 .. 3 : a_trace = SubSeq(<<"api_key", "jwt", "rate_limit">>, 1, n)
    /\ a_trace # <<>> => g_called
    /\ a_allow > 0 => (g_called /\ ApiKeyPasses /\ JwtPasses)
    /\ a_allow <= 1
    /\ (RejectedByHeader \/ (g_pc = "done" /\ response.status \in {401, 403})) =>
          (a_allow = 0 /\ windows = a_windows0)

\* the first request was counted; the second, from the same identity with a
\* wrong API key, got 401 and the count stayed at 1
C25_Witness ==
    /\ a_nreq = 2
    /\ g_pc = "done"
    /\ response.status = 401
    /\ a_require.api_key
    /\ a_request.x_api_key = "wrong"
    /\ a_request.identity = "a"
    /\ a_windows0 = [x \in {"a"} |-> <<0, 1>>]
    /\ windows = a_windows0

(* ---------------------------------------------------------------------- *)
(* C26                                                                     *)
(* ---------------------------------------------------------------------- *)

\* the identities that called allow() in the bucket now_window or the one
\* before it
SeenRecently(now_window) ==
    {k \in ManyIdentities :
        \E b \in Buckets : b \in {now_window, now_window - 1} /\ h_calls[<<k, b>>] > 0}

\* C26: when an allow() call returns and leaves the map at or above the prune
\* threshold, every entry has a bucket no more than one behind the bucket of
\* the call; so after any sequence of calls the map holds no more entries
\* than the larger of the threshold and the number of identities seen in that
\* bucket and the one before it.
C26_MemoryBound ==
    \A t \in Threads :
        m_pc[t] = "done" =>
            /\ Cardinality(DOMAIN windows) >= PruneThreshold =>
                  \A x \in DOMAIN windows : windows[x][1] >= m_now_window[t] - 1
            /\ Cardinality(DOMAIN windows) <=
                  Max(PruneThreshold, Cardinality(SeenRecently(m_now_window[t])))

\* a and b called in bucket 0, c in bucket 2: the call of c took the map to
\* three entries and the prune left c alone
C26_Witness ==
    /\ \E t \in Threads : m_pc[t] = "done" /\ m_key[t] = "c" /\ m_now_window[t] = 2
    /\ h_calls[<<"a", 0>>] > 0
    /\ h_calls[<<"b", 0>>] > 0
    /\ DOMAIN windows = {"c"}

(* ---------------------------------------------------------------------- *)
(* C27                                                                     *)
(* ---------------------------------------------------------------------- *)

\* the step is thread t's script running on key rk
ScriptRanOn(t, rk) ==
    /\ r_pc[t] \in {"evalsha", "eval"}
    /\ r_redis_key[t] = rk
    /\ hr_incr'[t] = hr_incr[t] + 1

C27_Step ==
    /\ \A t \in Threads :
          \* the key of the call: the bucket of the wall clock and the identity
          /\ (r_pc[t] = "idle" /\ r_pc'[t] \in {"script_load", "evalsha"}) =>
                r_redis_key'[t] = <<wall \div BucketSeconds, r_key'[t]>>
          \* one allow() runs the script at most once
          /\ hr_incr'[t] <= 1
    /\ \A rk \in RedisKeys :
          /\ (store'[rk] # store[rk] \/ expire_at'[rk] # expire_at[rk]) =>
                \E t \in Threads : ScriptRanOn(t, rk)
          /\ (\E t \in Threads : ScriptRanOn(t, rk)) =>
                /\ store'[rk] = Live(store, expire_at, rk, wall) + 1
                /\ IF Live(store, expire_at, rk, wall) = 0
                   THEN expire_at'[rk] = wall + WindowSeconds
                   ELSE expire_at'[rk] = expire_at[rk]
          /\ store'[rk] < store[rk] => wall >= expire_at[rk]

BreakerOpen == Degraded(mono, degraded_until)

C28_Step == BreakerOpen => degraded_until' >= degraded_until

\* C28: races on degraded_until are benign: once a failing call has opened
\* the breaker, no call running concurrently closes it or shortens it before
\* the cooldown has elapsed; at worst the cooldown is set again with a
\* similar expiry.
C28_BenignRace == [][C28_Step]_vars

(* ---------------------------------------------------------------------- *)
(* C29                                                                     *)
(* ---------------------------------------------------------------------- *)

\* the request declares exactly the limit and its body is exactly the limit
ExactlyAtLimit ==
    /\ Guarded
    /\ DeclaredInteger
    /\ Declared = MaxBodyBytes
    /\ BodyBytesUpTo(Len(g_stream)) = MaxBodyBytes

\* C29: the limit is inclusive. A guarded request whose Content-Length equals
\* max_request_body_bytes and whose body totals exactly that many bytes, in
\* any chunking, is never rejected or truncated by the guard; the guard
\* answers 413, or puts another message in the place of a body message, only
\* when the declared or the received size is strictly over the limit.
C29_InclusiveLimit ==
    /\ (ExactlyAtLimit /\ g_pc \notin {"none", "start"}) =>
          /\ g_called
          /\ ~OverflowMarked
          /\ \A i \in 1 .. Len(g_delivered) : g_delivered[i] = TransportMessage(g_stream, i)
          /\ g_pc = "done" =>
                /\ response.status \notin {400, 413}
                /\ response \in {DownstreamException}
                                   \cup {DownstreamResponse(st) : st \in HandlerStatuses \cup RouterStatuses}
    /\ (g_pc = "done" /\ response.kind = "response" /\ response.status = 413) =>
          \/ DeclaredInteger /\ Declared > MaxBodyBytes
          \/ received_bytes > MaxBodyBytes
    /\ \A i \in 1 .. Len(g_delivered) :
          g_delivered[i] # TransportMessage(g_stream, i) =>
              (Guarded /\ BodyBytesUpTo(i) > MaxBodyBytes)

\* a body of exactly the limit, in two chunks, was read to its end under a
\* Content-Length equal to the limit, and the handler's 200 came back
C29_Witness ==
    /\ ExactlyAtLimit
    /\ Len(g_stream) = 2
    /\ g_stream[1] > 0
    /\ g_stream[2] > 0
    /\ g_pc = "done"
    /\ g_pos >= 2
    /\ received_bytes = MaxBodyBytes
    /\ response.status = 200

(* ---------------------------------------------------------------------- *)
(* C30                                                                     *)
(* ---------------------------------------------------------------------- *)

\* the step is the locked section of thread t's allow()
LockedSectionOf(t) == m_pc[t] = "lock" /\ m_pc'[t] = "done"

C30_Step ==
    /\ windows' # windows => \E t \in Threads : LockedSectionOf(t)
    /\ \A t \in Threads :
          LockedSectionOf(t) =>
              \A x \in Identities \ {m_key[t]} :
                  IF x \in DOMAIN windows
                  THEN \/ x \in DOMAIN windows' /\ windows'[x] = windows[x]
                       \/ /\ x \notin DOMAIN windows'
                          /\ windows[x][1] < NowWindow(wall) - 1
                          /\ windows[x][1] < m_now_window[t] - 1
                  ELSE x \notin DOMAIN windows'

\* C30: allow(k) changes the stored (bucket, count) of identity k only; the
\* entry of another identity is left as it was, or removed by the prune when
\* its bucket is more than one behind the current bucket. An entry in the
\* current or the previous bucket is never removed or altered by a call for
\* another identity.
C30_Frame == [][C30_Step]_vars

\* a call for b in bucket 1 took the map to the prune threshold and left the
\* entry a has from bucket 0 as it was
C30_Witness ==
    /\ \E t \in Threads : m_pc[t] = "done" /\ m_key[t] = "b" /\ m_now_window[t] = 1
    /\ DOMAIN windows = {"a", "b"}
    /\ windows["a"] = <<0, 1>>
    /\ windows["b"] = <<1, 1>>

====
